---- MODULE Spec2Model ----
(***************************************************************************)
(* A model of the production scheduler (production_scheduler.py with its   *)
(* collaborators database_handler.py and results_writer.py).               *)
(*                                                                         *)
(* Conventions.                                                            *)
(*  - SQL NULL / Python None is the value None.                            *)
(*  - Changeover times are Python floats.  They are held here in ticks of  *)
(*    1/Scale minute, so that int(round(x)) is a real conversion.  Wall    *)
(*    clock datetimes are ticks since an epoch that is a Monday 00:00.     *)
(*  - Solver values (start, end, duration, horizon) are integer minutes,   *)
(*    as in the CP model.                                                  *)
(***************************************************************************)
EXTENDS Integers, Sequences, FiniteSets, TLC

VARIABLES
    db,               \* the external data store, its adapter and the wall clock
    pc,               \* position of solve_schedule
    inp,              \* the streams bound at line 52 of production_scheduler.py
    sim_start_time,   \* datetime, in ticks
    horizon,          \* upper bound of the solver's time axis, in minutes
    sol,              \* solver status and the values read back from it:
                      \* starts, selected literals and the two totals
    task_setup_times, \* oid -> changeover recomputed from the solved sequence
    db_save_list,     \* records handed to results_writer.save_schedule
    output_list,      \* records handed to visualize_schedule.create_gantt_chart
    violations,       \* non-working-day placements found by step 9c.1
    sink,             \* rows of the table [Orders] written by save_schedule
    co,               \* last call of get_changeover_time: arguments and result
    io,               \* connections to the store: those open, and how the
                      \* calls of get_data and save_schedule ended
    raised,           \* the exception that left solve_schedule, "none" if none
    cal               \* last call of working_minutes_to_real_time_for_resource

vars == <<db, pc, inp, sim_start_time, horizon, sol, task_setup_times,
          db_save_list, output_list, violations, sink, co, io, raised, cal>>

\* ----------------------------------------------------------------- values

None == -999

\* Resolution of the float model: one minute is Scale ticks.
Scale == 2

\* Python truthiness of an integer-or-None value (if x: ...).
Truthy(x) == x # None /\ x # 0

Max2(a, b) == IF a >= b THEN a ELSE b

RECURSIVE SumSeq(_)
SumSeq(s) == IF s = <<>> THEN 0 ELSE Head(s) + SumSeq(Tail(s))

RECURSIVE MaxSeq(_)
MaxSeq(s) == IF Len(s) = 1 THEN Head(s) ELSE Max2(Head(s), MaxSeq(Tail(s)))

\* int(round(x)) of a float x held as t ticks: round half to even.
PyRoundTicks(t) ==
    LET q == t \div Scale
        r == t % Scale
    IN  IF 2 * r < Scale THEN q
        ELSE IF 2 * r > Scale THEN q + 1
        ELSE IF q % 2 = 0 THEN q ELSE q + 1

\* ------------------------------------------------------ changeover engine

\* order_to_attr_params[order_id]: the AttributeParamIds of the order, in
\* table order, rows with a falsy AttributeParamId left out.
RECURSIVE ParamsFrom(_, _)
ParamsFrom(oas, order_id) ==
    IF oas = <<>> THEN <<>>
    ELSE LET oa == Head(oas)
             rest == ParamsFrom(Tail(oas), order_id)
         IN  IF oa.OrderId = order_id /\ Truthy(oa.AttributeParamId)
             THEN <<oa.AttributeParamId>> \o rest
             ELSE rest

order_to_attr_params(order_id) == ParamsFrom(inp.order_attrs, order_id)

\* A dict built by a loop over rows keeps the last row of each key: the
\* largest index of S, 0 when S is empty.
LastOf(S) == IF S = {} THEN 0 ELSE CHOOSE i \in S : \A j \in S : j <= i

\* attr_param_map.get(param_id): the AttributeId of the parameter, or None.
attr_param_map(param_id) ==
    LET i == LastOf({k \in 1..Len(inp.attr_params) :
                        inp.attr_params[k].AttributeParamId = param_id})
    IN  IF i = 0 THEN None ELSE inp.attr_params[i].AttributeId

\* The resource row of resource_id, or 0.
ResourceIndex(resource_id) ==
    LastOf({k \in 1..Len(inp.resources) : inp.resources[k].ResourcesId = resource_id})

\* res_to_changeover_group.get(resource_id): None when the key is absent.
res_to_changeover_group(resource_id) ==
    LET i == ResourceIndex(resource_id)
    IN  IF i = 0 THEN None
        ELSE IF Truthy(inp.resources[i].ChangeoverGroupId)
             THEN inp.resources[i].ChangeoverGroupId
             ELSE None

res_accumulative(resource_id) ==
    LET i == ResourceIndex(resource_id)
    IN  IF i = 0 THEN FALSE ELSE Truthy(inp.resources[i].Accumulative)

\* changeover_matrix: key -> float(SetupTime), 0.0 for a NULL SetupTime.
MatrixIndex(g, a, f, t) ==
    LastOf({k \in 1..Len(inp.changeover_data) :
              /\ inp.changeover_data[k].ChangeoverGroupId = g
              /\ inp.changeover_data[k].AttributeId = a
              /\ inp.changeover_data[k].FromAttrParamId = f
              /\ inp.changeover_data[k].ToAttrParamId = t})

changeover_matrix(g, a, f, t) ==
    LET st == inp.changeover_data[MatrixIndex(g, a, f, t)].SetupTime
    IN  IF st # None THEN st ELSE 0

\* changeover_standard: key -> float(ChangeoverTime); NULL rows are skipped.
StandardIndex(g, a) ==
    LastOf({k \in 1..Len(inp.changeover_times) :
              /\ inp.changeover_times[k].ChangeoverTime # None
              /\ inp.changeover_times[k].ChangeoverGroupId = g
              /\ inp.changeover_times[k].AttributeId = a})

changeover_standard(g, a) == inp.changeover_times[StandardIndex(g, a)].ChangeoverTime

\* The standard time looked up before the matrix.
PairTimesMatrixLast(g, attr_id, f, t) ==
    IF attr_param_map(f) = None \/ attr_param_map(f) # attr_id THEN <<>>
    ELSE IF f = t THEN <<0>>
    ELSE IF StandardIndex(g, attr_id) # 0 THEN <<changeover_standard(g, attr_id)>>
    ELSE IF MatrixIndex(g, attr_id, f, t) # 0 THEN <<changeover_matrix(g, attr_id, f, t)>>
    ELSE <<>>

\* What one (from_param_id, to_param_id) pair appends to times
\* (lines 131-151).
PairTimes(g, attr_id, f, t) ==
    IF attr_param_map(f) = None \/ attr_param_map(f) # attr_id THEN <<>>
    ELSE IF f = t THEN <<0>>
    ELSE IF MatrixIndex(g, attr_id, f, t) # 0 THEN <<changeover_matrix(g, attr_id, f, t)>>
    ELSE IF StandardIndex(g, attr_id) # 0 THEN <<changeover_standard(g, attr_id)>>
    ELSE <<>>

\* The inner loop: for from_param_id in from_params.
RECURSIVE InnerTimes(_, _, _, _)
InnerTimes(g, attr_id, from_params, t) ==
    IF from_params = <<>> THEN <<>>
    ELSE PairTimes(g, attr_id, Head(from_params), t)
         \o InnerTimes(g, attr_id, Tail(from_params), t)

\* The outer loop: for to_param_id in to_params.
RECURSIVE OuterTimes(_, _, _)
OuterTimes(g, from_params, to_params) ==
    IF to_params = <<>> THEN <<>>
    ELSE LET t == Head(to_params)
             attr_id == attr_param_map(t)
             rest == OuterTimes(g, from_params, Tail(to_params))
         IN  IF attr_id = None THEN rest
             ELSE InnerTimes(g, attr_id, from_params, t) \o rest

\* The list times of get_changeover_time, <<>> on the early returns.
changeover_times_list(from_order_id, to_order_id, resource_id) ==
    LET g == res_to_changeover_group(resource_id)
        from_params == order_to_attr_params(from_order_id)
        to_params == order_to_attr_params(to_order_id)
    IN  IF g = None THEN <<>>
        ELSE IF from_params = <<>> \/ to_params = <<>> THEN <<>>
        ELSE OuterTimes(g, from_params, to_params)

\* The two branches exchanged.
ApplyAccumulativeSwapped(resource_id, times) ==
    IF res_accumulative(resource_id) THEN SumSeq(times) ELSE MaxSeq(times)

\* Lines 156-161: max on an accumulative resource, else sum.
ApplyAccumulative(resource_id, times) ==
    IF res_accumulative(resource_id) THEN MaxSeq(times) ELSE SumSeq(times)

\* get_changeover_time, in ticks.
get_changeover_time(from_order_id, to_order_id, resource_id) ==
    LET times == changeover_times_list(from_order_id, to_order_id, resource_id)
    IN  IF times = <<>> THEN 0 ELSE ApplyAccumulative(resource_id, times)

\* -------------------------------------------------------- calendar engine

SHIFT_START_HOUR == 8
SHIFT_START_MIN == 0
SHIFT_END_HOUR == 16
SHIFT_END_MIN == 30

SHIFT_DURATION_MINUTES ==
    (SHIFT_END_HOUR * 60 + SHIFT_END_MIN) - (SHIFT_START_HOUR * 60 + SHIFT_START_MIN)

\* One minute and one day of wall clock time, in ticks.
Minute == Scale
Day == 1440 * Scale

\* datetime.replace(hour=0, minute=0, second=0, microsecond=0)
DateFloor(dt) == (dt \div Day) * Day

\* date.weekday(): 0 = Monday .. 6 = Sunday (the epoch is a Monday).
Weekday(dt) == (dt \div Day) % 7

\* time_to_minutes: a time of day is held as minutes since midnight.
time_to_minutes(time_obj) == IF time_obj = None THEN 0 ELSE time_obj

\* res_to_schedule.get(resource_id)
res_to_schedule(resource_id) ==
    LET i == ResourceIndex(resource_id)
    IN  IF i = 0 THEN None ELSE inp.resources[i].ScheduleId

ScheduleIndex(schedule_id) ==
    LastOf({k \in 1..Len(inp.schedules) : inp.schedules[k].ScheduleId = schedule_id})

ShiftIndex(shift_id) ==
    LastOf({k \in 1..Len(inp.shifts) : inp.shifts[k].ShiftId = shift_id})

BreakIndex(break_id) ==
    LastOf({k \in 1..Len(inp.breaks) : inp.breaks[k].BreakId = break_id})

\* schedule.get(weekday_names[weekday]) of the resource's schedule.
ShiftIdOn(schedule_id, date) ==
    inp.schedules[ScheduleIndex(schedule_id)].Days[Weekday(date) + 1]

\* The sum of the durations of shift_breaks[shift_id], rows of
\* break_shift_rel taken in order.
RECURSIVE BreakMinutes(_, _)
BreakMinutes(rels, shift_id) ==
    IF rels = <<>> THEN 0
    ELSE LET rel == Head(rels)
             rest == BreakMinutes(Tail(rels), shift_id)
             bi == BreakIndex(rel.BreakId)
             d == time_to_minutes(inp.breaks[bi].EndTime)
                    - time_to_minutes(inp.breaks[bi].StartTime)
         IN  IF rel.ShiftId = shift_id /\ bi # 0
             THEN (IF d < 0 THEN d + 1440 ELSE d) + rest
             ELSE rest

\* Lines 252-272: the net minutes of a shift found in shift_map.
NetMinutes(shift_id) ==
    LET shift == inp.shifts[ShiftIndex(shift_id)]
        gross == time_to_minutes(shift.EndTime) - time_to_minutes(shift.StartTime)
        gross_minutes == IF gross < 0 THEN gross + 1440 ELSE gross
    IN  Max2(0, gross_minutes - BreakMinutes(inp.break_shift_rel, shift_id))

\* get_resource_working_minutes_for_date, in minutes.
get_resource_working_minutes_for_date(resource_id, date) ==
    LET schedule_id == res_to_schedule(resource_id)
    IN  IF ~Truthy(schedule_id) \/ ScheduleIndex(schedule_id) = 0
        THEN (IF schedule_id = None THEN 0 ELSE SHIFT_DURATION_MINUTES)
        ELSE LET shift_id == ShiftIdOn(schedule_id, date)
             IN  IF shift_id = None THEN 0
                 ELSE IF ShiftIndex(shift_id) = 0 THEN SHIFT_DURATION_MINUTES
                 ELSE NetMinutes(shift_id)

\* get_shift_start_time_for_date, in minutes since midnight.
get_shift_start_time_for_date(resource_id, date) ==
    LET schedule_id == res_to_schedule(resource_id)
    IN  IF ~Truthy(schedule_id) \/ ScheduleIndex(schedule_id) = 0
        THEN SHIFT_START_HOUR * 60 + SHIFT_START_MIN
        ELSE LET shift_id == ShiftIdOn(schedule_id, date)
             IN  IF shift_id = None \/ ShiftIndex(shift_id) = 0
                 THEN SHIFT_START_HOUR * 60 + SHIFT_START_MIN
                 ELSE time_to_minutes(inp.shifts[ShiftIndex(shift_id)].StartTime)

\* The resource has no working minutes on any weekday: the loops of lines
\* 301 and 311 advance one day at a time with no bound of their own, until
\* the date leaves the range of datetime and the addition raises
\* OverflowError.
NeverWorks(resource_id) ==
    \A d \in 0..6 : get_resource_working_minutes_for_date(resource_id, d * Day) = 0

\* The first date from current_date on with working minutes (lines 301-302,
\* 311-312); called only when the resource works on some weekday.
RECURSIVE SkipNonWorking(_, _)
SkipNonWorking(resource_id, current_date) ==
    IF get_resource_working_minutes_for_date(resource_id, current_date) = 0
    THEN SkipNonWorking(resource_id, current_date + Day)
    ELSE current_date

\* A day is left for the next one when the remaining minutes fill it
\* exactly.
RECURSIVE ConsumeDaysStrict(_, _, _)
ConsumeDaysStrict(resource_id, current_date, remaining) ==
    LET day_minutes == get_resource_working_minutes_for_date(resource_id, current_date)
    IN  IF day_minutes = 0
        THEN ConsumeDaysStrict(resource_id, current_date + Day, remaining)
        ELSE IF remaining < day_minutes * Minute
        THEN current_date
             + get_shift_start_time_for_date(resource_id, current_date) * Minute
             + remaining
        ELSE ConsumeDaysStrict(resource_id, current_date + Day,
                               remaining - day_minutes * Minute)

\* A day that is used up is followed by the same day.
RECURSIVE ConsumeDaysSameDay(_, _, _)
ConsumeDaysSameDay(resource_id, current_date, remaining) ==
    LET day_minutes == get_resource_working_minutes_for_date(resource_id, current_date)
    IN  IF day_minutes = 0
        THEN ConsumeDaysSameDay(resource_id, current_date + Day, remaining)
        ELSE IF remaining <= day_minutes * Minute
        THEN current_date
             + get_shift_start_time_for_date(resource_id, current_date) * Minute
             + remaining
        ELSE ConsumeDaysSameDay(resource_id, current_date,
                                remaining - day_minutes * Minute)

\* The loop of lines 315-335; remaining is in ticks.
RECURSIVE ConsumeDays(_, _, _)
ConsumeDays(resource_id, current_date, remaining) ==
    LET day_minutes == get_resource_working_minutes_for_date(resource_id, current_date)
    IN  IF day_minutes = 0
        THEN ConsumeDays(resource_id, current_date + Day, remaining)
        ELSE IF remaining <= day_minutes * Minute
        THEN current_date
             + get_shift_start_time_for_date(resource_id, current_date) * Minute
             + remaining
        ELSE ConsumeDays(resource_id, current_date + Day,
                         remaining - day_minutes * Minute)

\* working_minutes_to_real_time_for_resource; worked is in ticks and the
\* result a datetime.  Called only when ~NeverWorks(resource_id).
working_minutes_to_real_time_for_resource(resource_id, start_datetime, worked) ==
    LET first == SkipNonWorking(resource_id, DateFloor(start_datetime))
    IN  IF worked = 0
        THEN first + get_shift_start_time_for_date(resource_id, first) * Minute
        ELSE IF worked > 0
        THEN ConsumeDays(resource_id, first, worked)
        ELSE first + get_shift_start_time_for_date(resource_id, first) * Minute

\* The date on which the loop of lines 315-335 returns.
RECURSIVE FinalDay(_, _, _)
FinalDay(resource_id, current_date, remaining) ==
    LET day_minutes == get_resource_working_minutes_for_date(resource_id, current_date)
    IN  IF day_minutes = 0
        THEN FinalDay(resource_id, current_date + Day, remaining)
        ELSE IF remaining <= day_minutes * Minute
        THEN current_date
        ELSE FinalDay(resource_id, current_date + Day,
                      remaining - day_minutes * Minute)

\* The last day a datetime can hold (9999-12-31), counted from the epoch
\* (Monday 2024-01-01): current_date += timedelta(days=1) raises
\* OverflowError on it.
MaxDay == 2913173

\* The number of dates the loops of lines 301-302 and 311-335 look at before
\* the function returns or raises.
DaysExamined(resource_id, start_datetime, worked) ==
    LET first_day == start_datetime \div Day
    IN  IF NeverWorks(resource_id)
        THEN MaxDay - first_day + 1
        ELSE LET first == SkipNonWorking(resource_id, DateFloor(start_datetime))
                 last == IF worked > 0 THEN FinalDay(resource_id, first, worked)
                         ELSE first
             IN  last \div Day - first_day + 1

\* working_minutes_to_real_time (lines 33-39): the uniform calendar.
working_minutes_to_real_time(start_datetime, worked_minutes) ==
    LET full_shifts == worked_minutes \div SHIFT_DURATION_MINUTES
        remainder_mins == worked_minutes % SHIFT_DURATION_MINUTES
    IN  DateFloor(start_datetime + full_shifts * Day)
        + (SHIFT_START_HOUR * 60 + SHIFT_START_MIN) * Minute
        + remainder_mins * Minute

\* ------------------------------------------------- pre-processing (2, 2b)

\* sorted(xs, key=...): the indices of keys in stable ascending order.
SortedIndices(keys) ==
    LET n == Len(keys)
        Rank(i) == Cardinality({j \in 1..n : \/ keys[j] < keys[i]
                                             \/ keys[j] = keys[i] /\ j < i}) + 1
    IN  [k \in 1..n |-> CHOOSE i \in 1..n : Rank(i) = k]

\* group_to_resources.get(group, []): ResourcesIds of the group, table order.
RECURSIVE MembersFrom(_, _)
MembersFrom(ms, group) ==
    IF ms = <<>> THEN <<>>
    ELSE IF Head(ms).ResourceGroupsId = group
         THEN <<Head(ms).ResourcesId>> \o MembersFrom(Tail(ms), group)
         ELSE MembersFrom(Tail(ms), group)

group_to_resources(group) == MembersFrom(inp.mappings, group)

\* int(x) of a float x held as t ticks: truncation toward zero.
PyIntTicks(t) == IF t >= 0 THEN t \div Scale ELSE -((-t) \div Scale)

\* convert_days_to_working_minutes: int(float(days) * 1440).  A number of
\* days is held in ticks of 1/(1440 * Scale) day.
convert_days_to_working_minutes(days_float) ==
    IF days_float = None THEN 0 ELSE PyIntTicks(days_float)

\* get_working_minutes_from_date: timedelta.days is the floor of the
\* difference in days.
get_working_minutes_from_date(start_simulation_date, target_date) ==
    IF target_date = None THEN 999999
    ELSE ((target_date - start_simulation_date) \div Day) * SHIFT_DURATION_MINUTES

\* ops_by_orderno[order_no]: indices of the rows of the order, table order.
OpsOfOrder(order_no) ==
    SelectSeq([k \in 1..Len(inp.raw_orders) |-> k],
              LAMBDA k : inp.raw_orders[k].OrderNo = order_no)

\* sorted(ops, key=lambda x: x.get('OpNo', 0)): row indices by OpNo.
sorted_ops(order_no) ==
    LET ops == OpsOfOrder(order_no)
        perm == SortedIndices([k \in 1..Len(ops) |-> inp.raw_orders[ops[k]].OpNo])
    IN  [k \in 1..Len(ops) |-> ops[perm[k]]]

OrderNos == {inp.raw_orders[k].OrderNo : k \in 1..Len(inp.raw_orders)}

\* The last row of the order in table order, its rows left unsorted.
order_last_ops_unsorted(order_no) ==
    LET ops == OpsOfOrder(order_no)
    IN  IF Len(ops) = 0 THEN None ELSE inp.raw_orders[ops[Len(ops)]].OrdersId

\* order_last_ops.get(order_no): OrdersId of the last operation, or None.
order_last_ops(order_no) ==
    LET ops == sorted_ops(order_no)
    IN  IF Len(ops) = 0 THEN None ELSE inp.raw_orders[ops[Len(ops)]].OrdersId

\* part_producers.get(part, []) as a set of order numbers (lines 345-357).
part_producers(part) ==
    {o \in OrderNos : \E k \in 1..Len(inp.bom) :
        /\ inp.bom[k].OrderNo = o
        /\ Truthy(inp.bom[k].OrderPartNo)
        /\ inp.bom[k].OrderPartNo = part}

\* Lines 359-373.  now is the wall clock, a datetime in ticks.
SimStart(now) ==
    LET hour == (now % Day) \div (60 * Minute)
        base == DateFloor(now) + (SHIFT_START_HOUR * 60 + SHIFT_START_MIN) * Minute
        start == IF hour >= SHIFT_END_HOUR THEN base + Day ELSE base
        first_res_id == inp.resources[1].ResourcesId
        Works(a) == get_resource_working_minutes_for_date(first_res_id, start + a * Day) # 0
        attempts == IF \E a \in 0..6 : Works(a)
                    THEN CHOOSE a \in 0..6 : Works(a) /\ \A b \in 0..(a - 1) : ~Works(b)
                    ELSE 7
    IN  IF Len(inp.resources) = 0 THEN start ELSE start + attempts * Day

planning_days == 90

\* Working minutes of a resource over the days [day, planning_days) counted
\* from date (lines 389-391).
RECURSIVE TotalWorkingMins(_, _, _)
TotalWorkingMins(res_id, date, day) ==
    IF day >= planning_days THEN 0
    ELSE get_resource_working_minutes_for_date(res_id, date + day * Day)
         + TotalWorkingMins(res_id, date, day + 1)

RECURSIVE MaxWorkingMinutes(_, _)
MaxWorkingMinutes(date, k) ==
    IF k = 0 THEN 0
    ELSE Max2(MaxWorkingMinutes(date, k - 1),
              TotalWorkingMins(inp.resources[k].ResourcesId, date, 0))

\* Line 395.
Horizon(date) == Max2(MaxWorkingMinutes(date, Len(inp.resources)),
                      60 * SHIFT_DURATION_MINUTES)

\* ------------------------------------------------------ model builder (3-7)

\* task_vars: one entry per row with a non-NULL OrdersId (line 406).
TaskIds == {inp.raw_orders[k].OrdersId : k \in 1..Len(inp.raw_orders)} \ {None}

\* task_vars[oid]['data']
TaskRow(oid) ==
    inp.raw_orders[LastOf({k \in 1..Len(inp.raw_orders) : inp.raw_orders[k].OrdersId = oid})]

\* The keys of task_vars in insertion order.
TaskSeq ==
    LET ids == [k \in 1..Len(inp.raw_orders) |-> inp.raw_orders[k].OrdersId]
    IN  SelectSeq(ids, LAMBDA x : x # None)

process_mins(oid) == convert_days_to_working_minutes(TaskRow(oid).TotalProcessTime)

eligible_resources(oid) == group_to_resources(TaskRow(oid).ResourceGroup)

\* A candidate solution gives each task a start and the index of its true
\* literal in resource_selections (0: the task has no literal).  The setup
\* variable is fixed to 0 (line 569), so duration_var = process_mins.
EndOf(st, oid) == st[oid] + process_mins(oid)

\* The resource whose literal is true, None when the task has none.
SelectedResource(ch, oid) ==
    IF ch[oid] = 0 THEN None ELSE eligible_resources(oid)[ch[oid]]

\* Domains of start_var, end_var, duration_var (lines 413-424).
DomainsOk(st, oid) ==
    /\ st[oid] \in 0..horizon
    /\ process_mins(oid) \in 0..horizon
    /\ EndOf(st, oid) \in 0..horizon

\* The offset taken in days instead of minutes.
EarliestOkInDays(st, oid) ==
    LET row == TaskRow(oid)
        earliest_mins == get_working_minutes_from_date(sim_start_time, row.EarliestStartDate)
    IN  Truthy(row.EarliestStartDate) /\ earliest_mins > 0 =>
            st[oid] >= earliest_mins \div SHIFT_DURATION_MINUTES

\* Lines 436-439.
EarliestOk(st, oid) ==
    LET row == TaskRow(oid)
        earliest_mins == get_working_minutes_from_date(sim_start_time, row.EarliestStartDate)
    IN  Truthy(row.EarliestStartDate) /\ earliest_mins > 0 => st[oid] >= earliest_mins

\* Lines 441-457: exactly one literal is true when there are literals.
SelectionOk(ch, oid) ==
    IF eligible_resources(oid) # <<>>
    THEN ch[oid] \in 1..Len(eligible_resources(oid))
    ELSE ch[oid] = 0

\* Lines 459-463: late_var in [0, horizon] with late_var >= end - due.
LatenessOk(st, oid) ==
    LET row == TaskRow(oid)
    IN  Truthy(row.DueDate) =>
            EndOf(st, oid) - get_working_minutes_from_date(sim_start_time, row.DueDate)
                <= horizon

\* 4. SEQUENCE (lines 468-474).
SequenceOk(st) ==
    \A o \in OrderNos :
        LET ops == sorted_ops(o)
        IN  \A i \in 1..(Len(ops) - 1) :
                LET curr == inp.raw_orders[ops[i]].OrdersId
                    next_op == inp.raw_orders[ops[i + 1]].OrdersId
                IN  curr \in TaskIds /\ next_op \in TaskIds =>
                        st[next_op] >= EndOf(st, curr)

\* 5. BOM (lines 477-489).
BomOk(st) ==
    \A k \in 1..Len(inp.bom) :
        LET parent_ord == inp.bom[k].OrderNo
            producers == part_producers(inp.bom[k].RequiredPartNo)
            parent_ops == sorted_ops(parent_ord)
        IN  producers # {} /\ Len(parent_ops) # 0 =>
                LET first_parent_op_id == inp.raw_orders[parent_ops[1]].OrdersId
                IN  first_parent_op_id \in TaskIds =>
                        \A prod \in producers :
                            LET last_prod_id == order_last_ops(prod)
                            IN  Truthy(last_prod_id) /\ last_prod_id \in TaskIds =>
                                    st[first_parent_op_id] >= EndOf(st, last_prod_id)

\* res_tasks[res_id]: the literals on a resource, as <<oid, index>> pairs in
\* creation order (lines 495-498).
ResTasks(res_id) ==
    LET Lits(oid) == [n \in 1..Len(eligible_resources(oid)) |-> <<oid, n>>]
        All[k \in 0..Len(TaskSeq)] ==
            IF k = 0 THEN <<>> ELSE All[k - 1] \o Lits(TaskSeq[k])
    IN  SelectSeq(All[Len(TaskSeq)],
                  LAMBDA l : eligible_resources(l[1])[l[2]] = res_id)

\* The resources that carry a literal.
LiteralResources ==
    UNION {{eligible_resources(oid)[n] : n \in 1..Len(eligible_resources(oid))} :
             oid \in TaskIds}

\* 6. NO OVERLAP (lines 500-502): the intervals whose literal is true are
\* pairwise disjoint; intervals of size zero count.
NoOverlapOk(st, ch) ==
    \A a, b \in TaskIds :
        /\ a # b
        /\ ch[a] # 0
        /\ ch[b] # 0
        /\ SelectedResource(ch, a) = SelectedResource(ch, b)
        => \/ EndOf(st, a) <= st[b]
           \/ EndOf(st, b) <= st[a]

\* The gap the model enforces for a changeover (lines 534-536, 545): the
\* float rounded to an integer when it is positive, else none.
Gap(changeover) == IF changeover > 0 THEN PyRoundTicks(changeover) ELSE 0

\* The constraints of one pair of literals under one value of i_before_j.
PairOk(st, ch, res_id, li, lj, i_before_j) ==
    LET task_i == li[1]
        task_j == lj[1]
        both_on_resource == ch[task_i] = li[2] /\ ch[task_j] = lj[2]
    IN  both_on_resource =>
            IF i_before_j
            THEN st[task_j] >= EndOf(st, task_i)
                                 + Gap(get_changeover_time(task_i, task_j, res_id))
            ELSE st[task_i] >= EndOf(st, task_j)
                                 + Gap(get_changeover_time(task_j, task_i, res_id))

\* 6a. (lines 510-559): i_before_j is a free boolean of each pair.
ChangeoverOk(st, ch) ==
    \A res_id \in LiteralResources :
        LET task_list == ResTasks(res_id)
        IN  \A i, j \in 1..Len(task_list) :
                i < j => \E i_before_j \in BOOLEAN :
                            PairOk(st, ch, res_id, task_list[i], task_list[j], i_before_j)

\* Every constraint of the CP model on the values that are read back.
Feasible(st, ch) ==
    /\ \A oid \in TaskIds :
          /\ DomainsOk(st, oid)
          /\ EarliestOk(st, oid)
          /\ SelectionOk(ch, oid)
          /\ LatenessOk(st, oid)
    /\ SequenceOk(st)
    /\ BomOk(st)
    /\ NoOverlapOk(st, ch)
    /\ ChangeoverOk(st, ch)

\* ------------------------------------------------------------ objective (7)

ENABLE_GRAVITY_STRATEGY == TRUE

\* sum(..) over the values of a function.
RECURSIVE SumOver(_)
SumOver(f) ==
    IF DOMAIN f = {} THEN 0
    ELSE LET x == CHOOSE y \in DOMAIN f : TRUE
         IN  f[x] + SumOver([y \in DOMAIN f \ {x} |-> f[y]])

\* total_lateness were the late variables not bounded below by 0.
LatenessSigned(st) ==
    LET Late(oid) ==
            EndOf(st, oid)
            - get_working_minutes_from_date(sim_start_time, TaskRow(oid).DueDate)
    IN  SumOver([oid \in {x \in TaskIds : Truthy(TaskRow(x).DueDate)} |-> Late(oid)])

\* total_lateness at its least (lines 459-463, 573-574): each late_var is
\* at least end - due and at least 0.
Lateness(st) ==
    LET Late(oid) ==
            Max2(0, EndOf(st, oid)
                    - get_working_minutes_from_date(sim_start_time, TaskRow(oid).DueDate))
    IN  SumOver([oid \in {x \in TaskIds : Truthy(TaskRow(x).DueDate)} |-> Late(oid)])

\* The cost variable of a pair of literals that are both true (lines
\* 537-557): the rounded changeover of the direction i_before_j gives it,
\* at its least when both directions satisfy the constraints.
PairCost(st, ch, res_id, li, lj) ==
    LET forth == Gap(get_changeover_time(li[1], lj[1], res_id))
        back == Gap(get_changeover_time(lj[1], li[1], res_id))
        okForth == PairOk(st, ch, res_id, li, lj, TRUE)
        okBack == PairOk(st, ch, res_id, li, lj, FALSE)
    IN  IF okForth /\ okBack THEN (IF forth <= back THEN forth ELSE back)
        ELSE IF okForth THEN forth ELSE back

\* The cost variables of the pairs of one resource.
ResourceCost(st, ch, res_id) ==
    LET task_list == ResTasks(res_id)
        on == {k \in 1..Len(task_list) : ch[task_list[k][1]] = task_list[k][2]}
    IN  SumOver([p \in {q \in on \X on : q[1] < q[2]} |->
                    PairCost(st, ch, res_id, task_list[p[1]], task_list[p[2]])])

\* total_changeover_cost at its least (lines 537-557, 561-564): a pair of
\* literals that are both true is charged the rounded changeover of the
\* direction i_before_j gives it, when that changeover is positive.
ChangeoverCost(st, ch) ==
    SumOver([res_id \in LiteralResources |-> ResourceCost(st, ch, res_id)])

\* makespan (lines 576-578).
Makespan(st) ==
    LET E == {EndOf(st, oid) : oid \in TaskIds}
    IN  CHOOSE m \in E : \A e \in E : m >= e

\* The sum that model.Minimize is given (lines 580-615), every auxiliary
\* variable at its least.  max_load and load_range are free, hence 0, when
\* no resource, respectively a single resource, carries a literal.
Objective(st, ch) ==
    LET Load(res_id) ==
            SumOver([oid \in {x \in TaskIds : SelectedResource(ch, x) = res_id}
                        |-> process_mins(oid)])
        L == {Load(res_id) : res_id \in LiteralResources}
        max_load == IF L = {} THEN 0 ELSE CHOOSE m \in L : \A x \in L : m >= x
        min_load == IF L = {} THEN 0 ELSE CHOOSE m \in L : \A x \in L : m <= x
        load_range == IF Cardinality(LiteralResources) > 1 THEN max_load - min_load ELSE 0
    IN  Lateness(st) * 10000
        + ChangeoverCost(st, ch) * 500
        + Makespan(st) * 100
        + load_range * 50
        + max_load * 1
        + (IF ENABLE_GRAVITY_STRATEGY THEN SumOver([oid \in TaskIds |-> st[oid]]) * 1 ELSE 0)

\* --------------------------------------------------------- solver driver (8)

\* Bound of the exploration of the solver's answers: how many minutes a task
\* may idle past the earliest position its predecessors allow.
MaxSlack == 1

RECURSIVE SubsetSums(_)
SubsetSums(S) ==
    IF S = {} THEN {0}
    ELSE LET x == CHOOSE y \in S : TRUE
             rest == SubsetSums(S \ {x})
         IN  rest \cup {r + process_mins(x) : r \in rest}

\* The gaps the changeover constraints can ask for, and their sums along a
\* chain of n + 1 tasks.
Gaps ==
    {Gap(get_changeover_time(a, b, r)) : a \in TaskIds, b \in TaskIds, r \in LiteralResources}

RECURSIVE GapSums(_)
GapSums(n) ==
    IF n <= 0 THEN {0}
    ELSE LET rest == GapSums(n - 1) IN rest \cup {x + g : x \in rest, g \in Gaps}

\* The starts explored: an earliest-start offset (or 0), plus the durations
\* of tasks placed before, plus the changeover gaps between them, plus the
\* idle time.
StartCandidates ==
    LET anchors == {0} \cup
            {get_working_minutes_from_date(sim_start_time, TaskRow(oid).EarliestStartDate) :
                oid \in {x \in TaskIds : Truthy(TaskRow(x).EarliestStartDate)}}
    IN  {a + d + g + k : a \in anchors, d \in SubsetSums(TaskIds),
                         g \in GapSums(Cardinality(TaskIds) - 1), k \in 0..MaxSlack}
            \cap (0..horizon)

ChoiceCandidates ==
    {ch \in [TaskIds -> 0..Len(inp.mappings)] : \A oid \in TaskIds : SelectionOk(ch, oid)}

Solutions ==
    {sc \in [TaskIds -> StartCandidates] \X ChoiceCandidates : Feasible(sc[1], sc[2])}

\* The solutions of the least objective among those explored.
OptimalSolutions ==
    LET valued == {<<sc, Objective(sc[1], sc[2])>> : sc \in Solutions}
        values == {p[2] : p \in valued}
        least == CHOOSE v \in values : \A w \in values : v <= w
    IN  {p[1] : p \in {q \in valued : q[2] = least}}

\* How far above their least values the totals of a solution that is not
\* proved optimal are explored, both by the same amount.
AuxSlack == {0, 1}

\* A task with a late_var (line 459).
HasDueDate(oid) == Truthy(TaskRow(oid).DueDate)

\* The number of late_var variables that may stand above their least value.
\* A variable may do so when the least value is below horizon, its upper
\* bound (line 461).
LooseLateVars(st) ==
    {oid \in TaskIds :
        /\ HasDueDate(oid)
        /\ Max2(0, EndOf(st, oid)
                    - get_working_minutes_from_date(sim_start_time, TaskRow(oid).DueDate))
             < horizon}

\* The values solver.Value(total_lateness) can have with the starts st
\* (lines 573-574): the sum of the late_var variables, each at least
\* max(0, end - due); any value of its domain when there is no late_var.
\* slack is the set of the amounts above the least value that are explored.
total_lateness_values(st, slack) ==
    IF \E oid \in TaskIds : HasDueDate(oid)
    THEN {Lateness(st) + k : k \in IF LooseLateVars(st) = {} THEN {0} ELSE slack}
    ELSE slack \cap (0..(horizon * Len(inp.raw_orders)))

\* changeover_cost_vars is not empty (lines 534-543, 548-557): some pair of
\* literals of a resource has a positive changeover in one direction.
HasCostVars ==
    \E res_id \in LiteralResources :
        LET task_list == ResTasks(res_id)
        IN  \E i, j \in 1..Len(task_list) :
                /\ i < j
                /\ \/ get_changeover_time(task_list[i][1], task_list[j][1], res_id) > 0
                   \/ get_changeover_time(task_list[j][1], task_list[i][1], res_id) > 0

\* The values solver.Value(total_changeover_cost) can have (lines 562-564):
\* the sum of the cost variables, which the constraints fix; any value of
\* its domain when there is no cost variable.
total_changeover_cost_values(st, ch, slack) ==
    IF HasCostVars
    THEN {ChangeoverCost(st, ch)}
    ELSE slack \cap (0..(horizon * Len(inp.raw_orders)))

NoSolution ==
    [status |-> "UNKNOWN", start |-> <<>>, choice |-> <<>>,
     total_lateness |-> 0, total_changeover_cost |-> 0]

\* ---------------------------------------------------- result materialiser (9)

\* The resource read back for a task (lines 689-693).
res_id_assigned(oid) == SelectedResource(sol.choice, oid)

start_val(oid) == sol.start[oid]
end_val(oid) == EndOf(sol.start, oid)

\* resource_schedules[res_id] after the sort by start time (lines 656-667),
\* as the sequence of task ids.
ResourceSchedule(res_id) ==
    LET on == SelectSeq(TaskSeq, LAMBDA oid : res_id_assigned(oid) = res_id)
        perm == SortedIndices([k \in 1..Len(on) |-> start_val(on[k])])
    IN  [k \in 1..Len(on) |-> on[perm[k]]]

\* task_setup_times.get(oid, 0) (lines 670-680, 715), in ticks.
SetupTimeOf(oid) ==
    LET res_id == res_id_assigned(oid)
        schedule == ResourceSchedule(res_id)
        i == CHOOSE k \in 1..Len(schedule) : schedule[k] = oid
    IN  IF res_id = None THEN 0
        ELSE IF i = 1 THEN 0
        ELSE get_changeover_time(schedule[i - 1], oid, res_id)

\* Lines 695-702.
RealTime(oid, worked_minutes) ==
    IF Truthy(res_id_assigned(oid))
    THEN working_minutes_to_real_time_for_resource(
             res_id_assigned(oid), sim_start_time, worked_minutes * Minute)
    ELSE working_minutes_to_real_time(sim_start_time, worked_minutes)

\* order_start_end[order_no] (lines 643-649).
OrderStart(order_no) ==
    LET S == {start_val(oid) : oid \in {x \in TaskIds : TaskRow(x).OrderNo = order_no}}
    IN  CHOOSE m \in S : \A x \in S : m <= x

OrderEnd(order_no) ==
    LET S == {end_val(oid) : oid \in {x \in TaskIds : TaskRow(x).OrderNo = order_no}}
    IN  CHOOSE m \in S : \A x \in S : m >= x

\* The record appended to db_save_list (lines 766-784).  setup_time is a
\* number of days, held in ticks of 1/(1440 * Scale) day.
SaveRecord(oid) ==
    LET row == TaskRow(oid)
    IN  [id |-> row.OrdersId,
         orno |-> row.OrderNo,
         opno |-> row.OpNo,
         start_time |-> RealTime(oid, start_val(oid)),
         end_time |-> RealTime(oid, end_val(oid)),
         duration |-> row.TotalProcessTime,
         setup_time |-> task_setup_times'[oid],
         resource_id |-> res_id_assigned(oid),
         resource_group_id |-> row.ResourceGroup,
         due_date |-> row.DueDate,
         order_start |-> working_minutes_to_real_time(sim_start_time, OrderStart(row.OrderNo)),
         order_end |-> working_minutes_to_real_time(sim_start_time, OrderEnd(row.OrderNo))]

\* strftime('%Y-%m-%d %H:%M') drops the seconds.
Strftime(dt) == (dt \div Minute) * Minute

\* An end that falls exactly on the due date counts as late.
IsLateOrEqual(due_date, real_end) ==
    IF Truthy(due_date) /\ real_end >= due_date THEN "YES" ELSE "NO"

\* is_late (lines 704-706).
IsLate(due_date, real_end) ==
    IF Truthy(due_date) /\ real_end > due_date THEN "YES" ELSE "NO"

\* The worked minutes, in ticks, between which the changeover block of a
\* task is drawn (lines 720-722): from the solved start of the task on.
ChangeoverBlock(oid, actual_changeover_mins) ==
    <<start_val(oid) * Minute, start_val(oid) * Minute + actual_changeover_mins>>

\* The records appended to output_list for one task (lines 704-763).
OutputRecords(oid) ==
    LET row == TaskRow(oid)
        real_start == RealTime(oid, start_val(oid))
        real_end == RealTime(oid, end_val(oid))
        is_late == IsLate(row.DueDate, real_end)
        actual_changeover_mins == task_setup_times'[oid]
        changeover_end ==
            working_minutes_to_real_time_for_resource(
                res_id_assigned(oid), sim_start_time,
                ChangeoverBlock(oid, actual_changeover_mins)[2])
    IN  IF actual_changeover_mins > 0
        THEN << [OrderNo |-> "CHANGEOVER", OpNo |-> 0, Resource |-> res_id_assigned(oid),
                 StartTime |-> Strftime(real_start), EndTime |-> Strftime(changeover_end),
                 IsLate |-> "NO",
                 ChangeoverMins |-> PyIntTicks(actual_changeover_mins)],
                [OrderNo |-> row.OrderNo, OpNo |-> row.OpNo, Resource |-> res_id_assigned(oid),
                 StartTime |-> Strftime(changeover_end), EndTime |-> Strftime(real_end),
                 IsLate |-> is_late, ChangeoverMins |-> 0] >>
        ELSE << [OrderNo |-> row.OrderNo, OpNo |-> row.OpNo, Resource |-> res_id_assigned(oid),
                 StartTime |-> Strftime(real_start), EndTime |-> Strftime(real_end),
                 IsLate |-> is_late, ChangeoverMins |-> 0] >>

RECURSIVE FlattenOutput(_)
FlattenOutput(ids) ==
    IF ids = <<>> THEN <<>> ELSE OutputRecords(Head(ids)) \o FlattenOutput(Tail(ids))

\* The conversion of some task does not return: its resource has no working
\* day, and lines 301 and 311 advance the date until OverflowError.
MaterialiseOverflows ==
    \E oid \in TaskIds : Truthy(res_id_assigned(oid)) /\ NeverWorks(res_id_assigned(oid))

\* 9c.1 (lines 796-818): the days from the start date to the end date of an
\* entry on which its resource has no working minutes.
ViolationsOf(entry) ==
    IF ~Truthy(entry.resource_id) THEN {}
    ELSE {[order |-> entry.orno, op |-> entry.opno,
           resource |-> entry.resource_id, date |-> d * Day] :
            d \in {x \in (entry.start_time \div Day)..(entry.end_time \div Day) :
                     get_resource_working_minutes_for_date(entry.resource_id, x * Day) = 0}}

\* ------------------------------------------------------------------ inputs

\* Bounds of the inputs.
MaxOps == 3

Order(id, order_no, op_no, group, process, earliest, due) ==
    [OrdersId |-> id, OrderNo |-> order_no, OpNo |-> op_no, ResourceGroup |-> group,
     TotalProcessTime |-> process, EarliestStartDate |-> earliest, DueDate |-> due]

Resource(id, cgroup, acc, schedule) ==
    [ResourcesId |-> id, ChangeoverGroupId |-> cgroup, Accumulative |-> acc,
     ScheduleId |-> schedule]

Mapping(group, res) == [ResourceGroupsId |-> group, ResourcesId |-> res]

MatrixRow(g, a, f, t, v) ==
    [ChangeoverGroupId |-> g, AttributeId |-> a, FromAttrParamId |-> f,
     ToAttrParamId |-> t, SetupTime |-> v]

StandardRow(g, a, v) == [ChangeoverGroupId |-> g, AttributeId |-> a, ChangeoverTime |-> v]

OrderAttr(oid, a, p) == [OrderId |-> oid, AttributeId |-> a, AttributeParamId |-> p]

\* Times of day, minutes since midnight.
T0800 == 8 * 60
T1630 == 16 * 60 + 30
T1200 == 12 * 60
T1230 == 12 * 60 + 30
T2200 == 22 * 60
T0600 == 6 * 60

\* The calendar tables of every input: schedule 1 is Monday to Friday
\* 08:00-16:30 with a half-hour break, schedule 2 a night shift 22:00-06:00
\* on Monday to Friday, schedule 3 has no working day, schedule 4 names a
\* shift that is not in the shift table.
StdSchedules ==
    << [ScheduleId |-> 1, Days |-> <<1, 1, 1, 1, 1, None, None>>],
       [ScheduleId |-> 2, Days |-> <<2, 2, 2, 2, 2, None, None>>],
       [ScheduleId |-> 3, Days |-> <<None, None, None, None, None, None, None>>],
       [ScheduleId |-> 4, Days |-> <<None, 9, 9, 9, 9, 9, None>>] >>

StdShifts ==
    << [ShiftId |-> 1, StartTime |-> T0800, EndTime |-> T1630],
       [ShiftId |-> 2, StartTime |-> T2200, EndTime |-> T0600] >>

StdBreaks == << [BreakId |-> 1, StartTime |-> T1200, EndTime |-> T1230] >>

StdBreakShiftRel == << [BreakId |-> 1, ShiftId |-> 1] >>

\* Attribute 1 has the parameters 1 and 2, attribute 2 the parameters 3 and 4.
StdAttrParams ==
    << [AttributeParamId |-> 1, AttributeId |-> 1],
       [AttributeParamId |-> 2, AttributeId |-> 1],
       [AttributeParamId |-> 3, AttributeId |-> 2],
       [AttributeParamId |-> 4, AttributeId |-> 2] >>

Tables(orders, bom, resources, mappings, order_attrs, cdata, ctimes) ==
    [raw_orders |-> orders, bom |-> bom, resources |-> resources, mappings |-> mappings,
     order_attrs |-> order_attrs, attr_params |-> StdAttrParams,
     changeover_times |-> ctimes, changeover_data |-> cdata,
     schedules |-> StdSchedules, shifts |-> StdShifts, breaks |-> StdBreaks,
     break_shift_rel |-> StdBreakShiftRel]

NoTables == Tables(<<>>, <<>>, <<>>, <<>>, <<>>, <<>>, <<>>)

\* Wall clock values: day d (day 0 is a Monday) at hh:mm.
At(d, hh, mm) == d * Day + (hh * 60 + mm) * Minute

\* Durations in days, in ticks of 1/(1440 * Scale) day.
Minutes(m) == m * Scale
OneDay == 1440 * Scale

\* The largest whole number of ticks that is at most half a minute.
Half == Scale \div 2

\* Family 1: order structure.  Resources 1 and 2 follow schedule 1; group 1
\* is {1}, group 2 is {1, 2}, group 3 has no member.  Each operation takes
\* one minute; at most one of them is not plain: it has a NULL OrdersId, or
\* asks for group 3, or for group 2, or has an earliest start after or before
\* the start.
Features == {"plain", "nullid", "nogroup", "two", "early", "past"}

FeaturedOrder(k, order_no, op_no, feat) ==
    Order(IF feat = "nullid" THEN None ELSE k,
          order_no, op_no,
          IF feat = "nogroup" THEN 3 ELSE IF feat = "two" THEN 2 ELSE 1,
          Minutes(1),
          IF feat = "early" THEN At(8, 12, 0) ELSE IF feat = "past" THEN At(5, 0, 0) ELSE None,
          None)

\* Order numbers and operation numbers of the rows, in table order.
Shapes ==
    { << <<"A", 10>> >>,
      << <<"A", 10>>, <<"A", 20>> >>,
      << <<"A", 10>>, <<"B", 10>> >>,
      << <<"A", 10>>, <<"A", 20>>, <<"A", 30>> >>,
      << <<"A", 30>>, <<"A", 10>>, <<"A", 20>> >>,
      << <<"A", 10>>, <<"B", 10>>, <<"A", 20>> >> }

StructureOrders ==
    {[k \in 1..Len(sh) |-> FeaturedOrder(k, sh[k][1], sh[k][2], f[k])] :
        sh \in {x \in Shapes : Len(x) <= MaxOps},
        f \in {g \in [1..MaxOps -> Features] :
                 \E k \in DOMAIN g : \A j \in DOMAIN g : j # k => g[j] = "plain"}}

StructureResources == <<Resource(1, None, 0, 1), Resource(2, None, 0, 1)>>

StructureMappings == <<Mapping(1, 1), Mapping(2, 1), Mapping(2, 2)>>

StructureTables ==
    {Tables(o, <<>>, StructureResources, StructureMappings, <<>>, <<>>, <<>>) :
        o \in StructureOrders \cup {<<>>}}

\* The ways the store can behave: the read goes through or meets a fault,
\* the adapter hands back the 15 streams line 52 unpacks or the 11 of
\* database_handler.get_data, and the write of the schedule goes through or
\* meets a fault.
Healthy == <<TRUE, 15, TRUE>>

LoadModes == {Healthy, <<FALSE, 15, TRUE>>, <<TRUE, 11, TRUE>>}

WriteModes == {Healthy, <<TRUE, 15, FALSE>>}

Database(tables, now, mode) ==
    [tables |-> tables, now |-> now, readable |-> mode[1], streams |-> mode[2],
     writable |-> mode[3]]

StructureDatabases ==
    {Database(t, At(7, 9, 0), m) : t \in StructureTables, m \in LoadModes}

\* Family 2: bill of materials.  Order A has one or two operations, order B
\* one or two; part 1 is made by the orders whose rows name it as
\* OrderPartNo.  Every subsequence of BomRows is a table.  The single operation
\* of order A takes no time, half a minute or a minute.
BomRow(order_no, part, required) ==
    [OrderNo |-> order_no, OrderPartNo |-> part, RequiredPartNo |-> required]

BomRows ==
    << BomRow("B", 1, None), BomRow("A", 2, 1), BomRow("A", 1, 1), BomRow("C", 1, None) >>

SubSeqs(rows) ==
    {SelectSeq([k \in 1..Len(rows) |-> <<k, rows[k]>>], LAMBDA x : x[1] \in S) :
        S \in SUBSET (1..Len(rows))}

BomTables ==
    {[k \in 1..Len(b) |-> b[k][2]] : b \in SubSeqs(BomRows)}

BomOrders ==
    {<<Order(1, "A", 10, 1, da, None, None), Order(2, "B", 10, 1, Minutes(1), None, None)>> :
        da \in {Minutes(0), Half, Minutes(1)}}
    \cup
    {<<Order(1, "A", 20, 1, Minutes(1), None, None),
       Order(ia, "A", 10, 1, Minutes(1), None, None),
       Order(3, "B", 10, 1, Minutes(1), None, None)>> : ia \in {2, None}}
    \cup
    {<<Order(ib, "B", 20, 1, Minutes(1), None, None),
       Order(2, "B", 10, 1, Minutes(1), None, None),
       Order(3, "A", 10, 2, Minutes(1), None, None)>> : ib \in {1, None}}

BomDatabases ==
    {Database(Tables(o, b, StructureResources, StructureMappings, <<>>, <<>>, <<>>),
              At(7, 9, 0), m) :
        o \in BomOrders, b \in BomTables, m \in WriteModes}

\* Family 3: changeovers.  Resource 1 is in changeover group 1 and is not
\* accumulative, resource 2 is in the same group and accumulative.  Two
\* operations with one parameter each of attribute 1, of half a minute or one
\* minute; the matrix holds, or not, an entry for each direction.
SetupChoices == {None, Half, Minutes(1), -Minutes(1)}

MatrixOf(v12, v21) ==
    (IF v12 = None THEN <<>> ELSE <<MatrixRow(1, 1, 1, 2, v12)>>)
    \o (IF v21 = None THEN <<>> ELSE <<MatrixRow(1, 1, 2, 1, v21)>>)

ChangeoverResources == <<Resource(1, 1, 0, 1), Resource(2, 1, 1, 1)>>

ChangeoverTables ==
    {Tables(<<Order(1, "A", 10, 1, d1, None, None), Order(2, "B", 10, 1, d2, None, None)>>,
            <<>>, ChangeoverResources, StructureMappings,
            <<OrderAttr(1, 1, 1), OrderAttr(2, 1, p2)>>, MatrixOf(v12, v21), <<>>) :
        d1 \in {Half, Minutes(1)}, d2 \in {Half, Minutes(1)},
        p2 \in {1, 2}, v12 \in SetupChoices, v21 \in SetupChoices}
    \cup
    {Tables(<<Order(1, "A", 10, 2, Minutes(1), None, None),
              Order(2, "B", 10, 2, Minutes(1), None, None)>>,
            <<>>, ChangeoverResources, StructureMappings,
            <<OrderAttr(1, 1, 1), OrderAttr(2, 1, 2)>>, MatrixOf(v12, v21), <<>>) :
        v12 \in SetupChoices, v21 \in SetupChoices}
    \cup
    {Tables(<<Order(1, "A", 10, 1, Minutes(1), None, None),
              Order(2, "B", 10, 1, Minutes(1), None, None),
              Order(3, "C", 10, 1, Minutes(1), None, None)>>,
            <<>>, ChangeoverResources, StructureMappings,
            <<OrderAttr(1, 1, 1), OrderAttr(2, 1, 2), OrderAttr(3, 1, 1)>>,
            MatrixOf(Minutes(1), v21), <<>>) :
        v21 \in {None, Minutes(2)}}

ChangeoverDatabases == {Database(t, At(7, 9, 0), Healthy) : t \in ChangeoverTables}

\* Family 4: calendars.  One operation for group 1, whose only member is
\* resource 2; resource 1 is the first resource and decides the start.  The
\* ScheduleId of a resource is one of the four schedules, NULL, or an id that
\* is not in the schedule table.
ScheduleChoices == {1, 2, 3, 4, None, 7}

CalendarTables ==
    {Tables(<<Order(1, "A", 10, 1, d, None, None)>>, <<>>,
            <<Resource(1, None, 0, s1), Resource(2, None, 0, s2)>>,
            <<Mapping(1, 2)>>, <<>>, <<>>, <<>>) :
        d \in {Minutes(1), Minutes(600), OneDay},
        s1 \in ScheduleChoices, s2 \in ScheduleChoices}

CalendarNows == {At(7, 9, 0), At(11, 9, 0), At(11, 17, 0), At(12, 10, 0)}

CalendarDatabases ==
    {Database(t, n, Healthy) : t \in CalendarTables, n \in CalendarNows}

\* Family 5: due dates.  Two one-minute operations of two orders on
\* resource 1, each with no due date or one that is before the start, one
\* or two minutes after it, or two days later.
DueChoices == {None, At(6, 0, 0), At(7, 8, 1), At(7, 8, 2), At(9, 0, 0)}

DueTables ==
    {Tables(<<Order(1, "A", 10, 1, Minutes(1), None, d1),
              Order(2, "B", 10, 1, Minutes(1), None, d2)>>,
            <<>>, StructureResources, StructureMappings, <<>>, <<>>, <<>>) :
        d1 \in DueChoices, d2 \in DueChoices}

DueDatabases == {Database(t, At(7, 9, 0), Healthy) : t \in DueTables}

\* Family 6: tardiness.  Two orders of one operation each on resource 1,
\* one of 2 days and one of 4 days, in either table order, both due four
\* days after the start; or a single operation as long as the floor of the
\* horizon, with no due date, one before the start or one after it.
LongProcess == Minutes(60 * SHIFT_DURATION_MINUTES)

TardinessTables ==
    {Tables(<<Order(1, "A", 10, 1, da * OneDay, None, At(11, 8, 0)),
              Order(2, "B", 10, 1, (6 - da) * OneDay, None, At(11, 8, 0))>>,
            <<>>, StructureResources, StructureMappings, <<>>, <<>>, <<>>) :
        da \in {2, 4}}
    \cup
    {Tables(<<Order(1, "A", 10, 1, LongProcess, None, due)>>,
            <<>>, StructureResources, StructureMappings, <<>>, <<>>, <<>>) :
        due \in {None, At(6, 0, 0), At(9, 0, 0)}}

TardinessDatabases == {Database(t, At(7, 9, 0), Healthy) : t \in TardinessTables}

\* The table [Orders] before the run: one row of an earlier schedule.
OldSink == << [id |-> 99999] >>

NoCall == [from |-> 0, to |-> 0, res |-> 0, times |-> <<>>, result |-> 0]

\* ------------------------------------------------ connections to the store

\* The connection of get_data (database_handler.py line 19) and the one of
\* save_schedule (results_writer.py line 13).
AdapterConn == 1
SinkConn == 2

\* The ways a call can end other than by success.  get_data: pymssql.connect
\* raises, a query raises pymssql.Error, or something else is raised inside
\* the try block.  save_schedule: pymssql.connect raises, executemany raises
\* pymssql.Error after the TRUNCATE, or something else is raised after it.
ReadFaults == {"connect", "query", "other"}
WriteFaults == {"connect", "insert", "other"}

\* The connection is released only when the try block ran to its end.
CloseOnSuccessOnly(conn, open, path) ==
    IF Truthy(conn) /\ path = "success" THEN open \ {conn} ELSE open

\* finally: if conn: conn.close()  (database_handler.py lines 154-155,
\* results_writer.py lines 79-80), whatever the path.
CloseAtExit(conn, open, path) ==
    IF Truthy(conn) THEN open \ {conn} ELSE open

\* The connections open once get_data has returned or raised: conn stays
\* None when pymssql.connect raised.
get_data_connections(open, path) ==
    LET conn == IF path = "connect" THEN None ELSE AdapterConn
        opened == IF conn = None THEN open ELSE open \cup {conn}
    IN  CloseAtExit(conn, opened, path)

\* The connections open once save_schedule has returned or raised.
save_schedule_connections(open, path) ==
    LET conn == IF path = "connect" THEN None ELSE SinkConn
        opened == IF conn = None THEN open ELSE open \cup {conn}
    IN  CloseAtExit(conn, opened, path)

\* The rows of [Orders] as the transaction of save_schedule sees them when
\* the call ends: untouched when there is no connection, empty after the
\* TRUNCATE of line 23, the new rows after the executemany of line 68.
WorkingRows(before, rows, path) ==
    IF path = "connect" THEN before
    ELSE IF path = "success" THEN rows
    ELSE <<>>

\* Every statement takes effect at once, outside any transaction.
SinkAfterAutocommit(before, rows, path) == WorkingRows(before, rows, path)

\* The rows of [Orders] once save_schedule has ended: the commit of line 73
\* makes the working rows durable; conn.rollback() (line 78) or the close of
\* a connection that did not commit (line 80) discards them.
SinkAfter(before, rows, path) ==
    IF path = "success" THEN WorkingRows(before, rows, path) ELSE before

NoIo == [open |-> {}, read |-> "none", write |-> "none", saves |-> 0]

NoCalendarCall ==
    [res |-> 0, start |-> 0, worked |-> 0, minutes |-> 0, outcome |-> "none",
     result |-> 0, examined |-> 0]

InitRest ==
    /\ pc = "start"
    /\ inp = NoTables
    /\ sim_start_time = 0
    /\ horizon = 0
    /\ sol = NoSolution
    /\ task_setup_times = <<>>
    /\ db_save_list = <<>>
    /\ output_list = <<>>
    /\ violations = {}
    /\ sink = OldSink
    /\ co = NoCall
    /\ io = NoIo
    /\ raised = "none"
    /\ cal = NoCalendarCall

Init ==
    /\ db \in StructureDatabases \cup BomDatabases \cup ChangeoverDatabases
               \cup CalendarDatabases \cup DueDatabases \cup TardinessDatabases
    /\ InitRest

\* ----------------------------------------------------------------- actions

\* 1. LOAD DATA fails (lines 50-55): get_data raises, or the unpacking of
\* its result into 15 names raises; either is caught and the run returns.
LoadFails ==
    /\ pc = "start"
    /\ \/ /\ ~db.readable
          /\ \E path \in ReadFaults :
                io' = [io EXCEPT !.open = get_data_connections(io.open, path),
                                 !.read = path]
       \/ /\ db.readable
          /\ db.streams # 15
          /\ io' = [io EXCEPT !.open = get_data_connections(io.open, "success"),
                              !.read = "success"]
    /\ pc' = "load_failed"
    /\ UNCHANGED <<db, inp, sim_start_time, horizon, sol, task_setup_times,
                   db_save_list, output_list, violations, sink, co, raised, cal>>

\* 1. LOAD DATA succeeds (lines 50-61).
LoadData ==
    /\ pc = "start"
    /\ db.readable
    /\ db.streams = 15
    /\ inp' = db.tables
    /\ io' = [io EXCEPT !.open = get_data_connections(io.open, "success"),
                        !.read = "success"]
    /\ pc' = IF db.tables.raw_orders = <<>> THEN "no_orders" ELSE "loaded"
    /\ UNCHANGED <<db, sim_start_time, horizon, sol, task_setup_times,
                   db_save_list, output_list, violations, sink, co, raised, cal>>

\* 2-7. Pre-processing and model building (lines 63-615).
BuildModel ==
    /\ pc = "loaded"
    /\ sim_start_time' = SimStart(db.now)
    /\ horizon' = Horizon(SimStart(db.now))
    /\ pc' = IF TaskIds = {} THEN "no_tasks" ELSE "built"
    /\ UNCHANGED <<db, inp, sol, task_setup_times, db_save_list, output_list,
                   violations, sink, co, io, raised, cal>>

\* 8. SOLVE returns FEASIBLE with some solution of the model; the totals
\* printed at lines 634-635 are read back with it.
SolveFeasible ==
    /\ pc = "built"
    /\ \E sc \in Solutions :
          \E k \in AuxSlack :
              \E tl \in total_lateness_values(sc[1], {k}),
                 tc \in total_changeover_cost_values(sc[1], sc[2], {k}) :
                  sol' = [status |-> "FEASIBLE", start |-> sc[1], choice |-> sc[2],
                          total_lateness |-> tl, total_changeover_cost |-> tc]
    /\ pc' = "solved"
    /\ UNCHANGED <<db, inp, sim_start_time, horizon, task_setup_times,
                   db_save_list, output_list, violations, sink, co, io, raised, cal>>

\* 8. SOLVE returns OPTIMAL with a solution of the least objective, in
\* which every total stands at its least value.
SolveOptimal ==
    /\ pc = "built"
    /\ \E sc \in OptimalSolutions :
          sol' = [status |-> "OPTIMAL", start |-> sc[1], choice |-> sc[2],
                  total_lateness |-> Lateness(sc[1]),
                  total_changeover_cost |-> ChangeoverCost(sc[1], sc[2])]
    /\ pc' = "solved"
    /\ UNCHANGED <<db, inp, sim_start_time, horizon, task_setup_times,
                   db_save_list, output_list, violations, sink, co, io, raised, cal>>

\* 8. SOLVE returns INFEASIBLE (lines 859-860).
SolveInfeasible ==
    /\ pc = "built"
    /\ \A sc \in [TaskIds -> StartCandidates] \X ChoiceCandidates : ~Feasible(sc[1], sc[2])
    /\ sol' = [NoSolution EXCEPT !.status = "INFEASIBLE"]
    /\ pc' = "no_solution"
    /\ UNCHANGED <<db, inp, sim_start_time, horizon, task_setup_times,
                   db_save_list, output_list, violations, sink, co, io, raised, cal>>

\* 8. SOLVE runs out of time with no incumbent (lines 859-860).
SolveTimeout ==
    /\ pc = "built"
    /\ sol' = [NoSolution EXCEPT !.status = "UNKNOWN"]
    /\ pc' = "no_solution"
    /\ UNCHANGED <<db, inp, sim_start_time, horizon, task_setup_times,
                   db_save_list, output_list, violations, sink, co, io, raised, cal>>

\* 9a-9b. The values are read back and converted (lines 628-784).
Materialise ==
    /\ pc = "solved"
    /\ ~MaterialiseOverflows
    /\ task_setup_times' = [oid \in TaskIds |-> SetupTimeOf(oid)]
    /\ db_save_list' = [k \in 1..Len(TaskSeq) |-> SaveRecord(TaskSeq[k])]
    /\ output_list' = FlattenOutput(TaskSeq)
    /\ pc' = "materialised"
    /\ UNCHANGED <<db, inp, sim_start_time, horizon, sol, violations, sink, co, io, raised, cal>>

\* 9b. A conversion raises OverflowError, which nothing catches: the run
\* ends with nothing saved.
MaterialiseOverflow ==
    /\ pc = "solved"
    /\ MaterialiseOverflows
    /\ raised' = "OverflowError"
    /\ pc' = "crashed"
    /\ UNCHANGED <<db, inp, sim_start_time, horizon, sol, task_setup_times,
                   db_save_list, output_list, violations, sink, co, io, cal>>

\* 9c. save_schedule commits (results_writer.py lines 9-75).
SaveCommit ==
    /\ pc = "materialised"
    /\ db.writable
    /\ sink' = SinkAfter(sink, db_save_list, "success")
    /\ io' = [io EXCEPT !.open = save_schedule_connections(io.open, "success"),
                        !.write = "success", !.saves = @ + 1]
    /\ pc' = "saved"
    /\ UNCHANGED <<db, inp, sim_start_time, horizon, sol, task_setup_times,
                   db_save_list, output_list, violations, co, raised, cal>>

\* 9c. were save_schedule called again after a pymssql.Error.
SaveRollbackAndRetry ==
    /\ pc = "materialised"
    /\ ~db.writable
    /\ \E path \in WriteFaults \ {"other"} :
          /\ sink' = SinkAfter(sink, db_save_list, path)
          /\ io' = [io EXCEPT !.open = save_schedule_connections(io.open, path),
                              !.write = path, !.saves = @ + 1]
    /\ pc' = "materialised"
    /\ UNCHANGED <<db, inp, sim_start_time, horizon, sol, task_setup_times,
                   db_save_list, output_list, violations, co, raised, cal>>

\* 9c. save_schedule meets a pymssql.Error, prints it, rolls back when it
\* has a connection and returns (results_writer.py lines 76-80); the run
\* goes on.
SaveRollback ==
    /\ pc = "materialised"
    /\ ~db.writable
    /\ \E path \in WriteFaults \ {"other"} :
          /\ sink' = SinkAfter(sink, db_save_list, path)
          /\ io' = [io EXCEPT !.open = save_schedule_connections(io.open, path),
                              !.write = path, !.saves = @ + 1]
    /\ pc' = "saved"
    /\ UNCHANGED <<db, inp, sim_start_time, horizon, sol, task_setup_times,
                   db_save_list, output_list, violations, co, raised, cal>>

\* 9c. save_schedule meets an exception that is not a pymssql.Error: the
\* except clause of line 76 does not apply, the finally clause closes the
\* connection, and the exception leaves save_schedule and solve_schedule
\* (line 787 is in no try block).
SaveRaises ==
    /\ pc = "materialised"
    /\ ~db.writable
    /\ sink' = SinkAfter(sink, db_save_list, "other")
    /\ io' = [io EXCEPT !.open = save_schedule_connections(io.open, "other"),
                        !.write = "other", !.saves = @ + 1]
    /\ raised' = "Exception"
    /\ pc' = "crashed"
    /\ UNCHANGED <<db, inp, sim_start_time, horizon, sol, task_setup_times,
                   db_save_list, output_list, violations, co, cal>>

\* 9c.1-9e. The validation pass, the statistics and the chart
\* (lines 789-858).
Validate ==
    /\ pc = "saved"
    /\ violations' = UNION {ViolationsOf(db_save_list[k]) : k \in 1..Len(db_save_list)}
    /\ pc' = "done"
    /\ UNCHANGED <<db, inp, sim_start_time, horizon, sol, task_setup_times,
                   db_save_list, output_list, sink, co, io, raised, cal>>

Next ==
    \/ LoadFails
    \/ LoadData
    \/ BuildModel
    \/ SolveFeasible
    \/ SolveOptimal
    \/ SolveInfeasible
    \/ SolveTimeout
    \/ Materialise
    \/ MaterialiseOverflow
    \/ SaveCommit
    \/ SaveRollback
    \/ SaveRaises
    \/ Validate

Spec == Init /\ [][Next]_vars

\* ------------------------------------------- the changeover engine on its own

\* The parameters an operation can carry, in table order: none, one of
\* attribute 1, one of each attribute, two of attribute 1, or one that is
\* not in the parameter table.
ParamLists == {<<>>, <<1>>, <<2>>, <<1, 3>>, <<2, 4>>, <<1, 2>>, <<1, 9>>}

AttrsOf(oid, params) ==
    [k \in 1..Len(params) |->
        OrderAttr(oid, IF params[k] \in {3, 4} THEN 2 ELSE 1, params[k])]

\* Resource 1 is in changeover group 1 and adds the contributions up,
\* resource 2 is in group 1 and accumulative, resource 3 has no group,
\* resource 4 is in group 1 with a NULL Accumulative.
EngineResources ==
    <<Resource(1, 1, 0, 1), Resource(2, 1, 1, 1), Resource(3, None, 0, 1),
      Resource(4, 1, None, 1)>>

\* The matrix: an entry of group 2 that no resource uses, then entries for
\* 1 -> 2, 2 -> 1 and 3 -> 4 of group 1.  NoRow leaves the entry out; None is
\* an entry whose SetupTime is NULL.
NoRow == None - 1

EngineMatrix(v12, v21, v34) ==
    <<MatrixRow(2, 1, 1, 2, Minutes(99))>>
    \o (IF v12 = NoRow THEN <<>> ELSE <<MatrixRow(1, 1, 1, 2, v12)>>)
    \o (IF v21 = NoRow THEN <<>> ELSE <<MatrixRow(1, 1, 2, 1, v21)>>)
    \o (IF v34 = NoRow THEN <<>> ELSE <<MatrixRow(1, 2, 3, 4, v34)>>)

EngineStandard(s1, s2) ==
    (IF s1 = NoRow THEN <<>> ELSE <<StandardRow(1, 1, s1)>>)
    \o (IF s2 = NoRow THEN <<>> ELSE <<StandardRow(1, 2, s2)>>)

EngineTables ==
    {Tables(<<Order(1, "A", 10, 1, Minutes(1), None, None),
              Order(2, "B", 10, 1, Minutes(1), None, None)>>,
            <<>>, EngineResources, <<Mapping(1, 1)>>,
            AttrsOf(1, p1) \o AttrsOf(2, p2),
            EngineMatrix(v12, v21, v34), EngineStandard(s1, s2)) :
        p1 \in ParamLists, p2 \in ParamLists,
        v12 \in {NoRow, Minutes(20), None, -Minutes(5)},
        v21 \in {NoRow, Minutes(30)},
        v34 \in {NoRow, Minutes(50), Half},
        s1 \in {NoRow, Minutes(7)},
        s2 \in {NoRow, Minutes(9), None}}

InitCO ==
    /\ db \in {Database(t, At(7, 9, 0), Healthy) : t \in EngineTables}
    /\ pc = "engine"
    /\ inp = db.tables
    /\ sim_start_time = 0
    /\ horizon = 0
    /\ sol = NoSolution
    /\ task_setup_times = <<>>
    /\ db_save_list = <<>>
    /\ output_list = <<>>
    /\ violations = {}
    /\ sink = OldSink
    /\ co = NoCall
    /\ io = NoIo
    /\ raised = "none"
    /\ cal = NoCalendarCall

\* One call of get_changeover_time (lines 106-161).
EvalChangeover ==
    /\ pc = "engine"
    /\ \E from_order_id \in 1..2, to_order_id \in 1..2, resource_id \in 1..5 :
          co' = [from |-> from_order_id, to |-> to_order_id, res |-> resource_id,
                 times |-> changeover_times_list(from_order_id, to_order_id, resource_id),
                 result |-> get_changeover_time(from_order_id, to_order_id, resource_id)]
    /\ pc' = "returned"
    /\ UNCHANGED <<db, inp, sim_start_time, horizon, sol, task_setup_times,
                   db_save_list, output_list, violations, sink, io, raised, cal>>

NextCO == EvalChangeover

SpecCO == InitCO /\ [][NextCO]_vars

\* ------------------------------------------- the calendar engine on its own

\* Shift 1 is 08:00-16:30 with a lunch break, shift 2 a night shift
\* 22:00-06:00 with a break over midnight, shift 3 lasts an hour and has a
\* break longer than itself, shift 4 is an early shift 05:00-13:00.
Clock(hh, mm) == hh * 60 + mm

EngineShifts ==
    << [ShiftId |-> 1, StartTime |-> T0800, EndTime |-> T1630],
       [ShiftId |-> 2, StartTime |-> T2200, EndTime |-> T0600],
       [ShiftId |-> 3, StartTime |-> T0800, EndTime |-> Clock(9, 0)],
       [ShiftId |-> 4, StartTime |-> Clock(5, 0), EndTime |-> Clock(13, 0)] >>

EngineBreaks ==
    << [BreakId |-> 1, StartTime |-> T1200, EndTime |-> T1230],
       [BreakId |-> 2, StartTime |-> Clock(23, 50), EndTime |-> Clock(0, 10)],
       [BreakId |-> 3, StartTime |-> Clock(7, 0), EndTime |-> Clock(9, 30)] >>

\* The last relation names a break that is not in the break table.
EngineBreakShiftRel ==
    << [BreakId |-> 1, ShiftId |-> 1], [BreakId |-> 2, ShiftId |-> 2],
       [BreakId |-> 3, ShiftId |-> 3], [BreakId |-> 8, ShiftId |-> 1] >>

\* Schedules 1 to 4 as in the other inputs; schedule 5 has shift 3 on
\* Monday and shift 1 on Wednesday and Saturday; schedule 6 has shift 3
\* only; schedule 7 has the night shift on Monday and the early shift on
\* Tuesday, which starts before the night shift is over; schedule 8 has the
\* day shift on Monday, the night shift on Tuesday and the early shift on
\* Thursday.
EngineSchedules ==
    StdSchedules \o
    << [ScheduleId |-> 5, Days |-> <<3, None, 1, None, None, 1, None>>],
       [ScheduleId |-> 6, Days |-> <<3, None, None, 3, None, None, None>>],
       [ScheduleId |-> 7, Days |-> <<2, 4, None, None, None, None, None>>],
       [ScheduleId |-> 8, Days |-> <<1, 2, None, 4, None, None, None>>] >>

\* Resource k follows schedule k for k in 1..6; resource 7 has no schedule
\* and resource 8 one that is not in the schedule table; resources 9 and 10
\* follow the schedules 7 and 8.
EngineCalendarResources ==
    [k \in 1..10 |->
        Resource(k, None, 0,
                 IF k <= 6 THEN k ELSE IF k = 7 THEN None ELSE IF k = 8 THEN 77 ELSE k - 2)]

EngineCalendarTables ==
    [Tables(<<>>, <<>>, EngineCalendarResources, <<>>, <<>>, <<>>, <<>>)
        EXCEPT !.schedules = EngineSchedules, !.shifts = EngineShifts,
               !.breaks = EngineBreaks, !.break_shift_rel = EngineBreakShiftRel]

\* The arguments of the calls: a start on each day of a week, in the
\* morning or in the evening, and a number of worked minutes, whole or not.
EngineStarts == {At(d, hh, 0) : d \in 7..13, hh \in {8, 17}}

EngineWorked ==
    {0, Half, Minutes(1), Minutes(120), Minutes(121), Minutes(460), Minutes(461),
     Minutes(480), Minutes(481), Minutes(510), Minutes(960), Minutes(1440)}

InitCal ==
    /\ db = Database(EngineCalendarTables, At(7, 9, 0), Healthy)
    /\ pc = "calendar"
    /\ inp = db.tables
    /\ sim_start_time = 0
    /\ horizon = 0
    /\ sol = NoSolution
    /\ task_setup_times = <<>>
    /\ db_save_list = <<>>
    /\ output_list = <<>>
    /\ violations = {}
    /\ sink = OldSink
    /\ co = NoCall
    /\ io = NoIo
    /\ raised = "none"
    /\ cal = NoCalendarCall

\* One call of working_minutes_to_real_time_for_resource (lines 291-339):
\* it returns a datetime, or its date runs past the last one.  minutes is
\* get_resource_working_minutes_for_date of the start date.
EvalCalendar ==
    /\ pc = "calendar"
    /\ \E resource_id \in 1..Len(inp.resources), start \in EngineStarts,
          worked \in EngineWorked :
          cal' = [res |-> resource_id, start |-> start, worked |-> worked,
                  minutes |-> get_resource_working_minutes_for_date(resource_id, start),
                  outcome |-> IF NeverWorks(resource_id) THEN "OverflowError"
                              ELSE "returned",
                  result |-> IF NeverWorks(resource_id) THEN 0
                             ELSE working_minutes_to_real_time_for_resource(
                                      resource_id, start, worked),
                  examined |-> DaysExamined(resource_id, start, worked)]
    /\ pc' = "returned"
    /\ UNCHANGED <<db, inp, sim_start_time, horizon, sol, task_setup_times,
                   db_save_list, output_list, violations, sink, co, io, raised>>

NextCal == EvalCalendar

SpecCal == InitCal /\ [][NextCal]_vars

\* ------------------------------------------------------------- properties

\* The solver driver accepted a solution (line 628).
Accepted == sol.status \in {"OPTIMAL", "FEASIBLE"}

\* The result lists are built.
Emitted == pc \in {"materialised", "saved", "done"}

\* C1: in every accepted solution, any two distinct operations selected on
\* the same resource r satisfy end(i) + changeover_minutes(i, j, r) <=
\* start(j) or end(j) + changeover_minutes(j, i, r) <= start(i).
C1_NonOverlapWithChangeover ==
    Accepted =>
        \A i, j \in TaskIds :
            /\ i # j
            /\ res_id_assigned(i) # None
            /\ res_id_assigned(i) = res_id_assigned(j)
            => LET r == res_id_assigned(i)
               IN  \/ end_val(i) * Minute + get_changeover_time(i, j, r)
                         <= start_val(j) * Minute
                   \/ end_val(j) * Minute + get_changeover_time(j, i, r)
                         <= start_val(i) * Minute

\* C2: every operation of the emitted schedule has exactly one true
\* resource-selection boolean, and the resource_id of its sink record is
\* that resource.
C2_ExactlyOneResource ==
    Emitted =>
        \A k \in 1..Len(db_save_list) :
            LET e == db_save_list[k]
                lits == eligible_resources(e.id)
                true_lits == {n \in 1..Len(lits) : sol.choice[e.id] = n}
            IN  /\ Cardinality(true_lits) = 1
                /\ \A n \in true_lits : e.resource_id = lits[n]

\* C3: in every accepted solution, of two operations of one order the one
\* with the higher op_no starts no earlier than the other ends, for all
\* such pairs.
C3_IntraOrderPrecedence ==
    Accepted =>
        \A a, b \in TaskIds :
            /\ TaskRow(a).OrderNo = TaskRow(b).OrderNo
            /\ TaskRow(a).OpNo < TaskRow(b).OpNo
            => start_val(b) >= end_val(a)

\* C4: in every accepted solution, for every BOM record whose required part
\* has producers, the operation of lowest op_no of the parent order starts
\* no earlier than the operation of highest op_no of every producer order
\* ends.
C4_BomPrecedence ==
    Accepted =>
        \A k \in 1..Len(inp.bom) :
            LET Rows(o) == {n \in 1..Len(inp.raw_orders) : inp.raw_orders[n].OrderNo = o}
                First(o) == {n \in Rows(o) :
                               \A m \in Rows(o) : inp.raw_orders[n].OpNo <= inp.raw_orders[m].OpNo}
                Last(o) == {n \in Rows(o) :
                              \A m \in Rows(o) : inp.raw_orders[n].OpNo >= inp.raw_orders[m].OpNo}
                part == inp.bom[k].RequiredPartNo
                producers == {inp.bom[n].OrderNo :
                                n \in {m \in 1..Len(inp.bom) : inp.bom[m].OrderPartNo = part}}
            IN  part # None =>
                    \A prod \in producers :
                        \A f \in First(inp.bom[k].OrderNo), l \in Last(prod) :
                            LET first_id == inp.raw_orders[f].OrdersId
                                last_id == inp.raw_orders[l].OrdersId
                            IN  first_id \in TaskIds /\ last_id \in TaskIds =>
                                    sol.start[first_id]
                                        >= sol.start[last_id] + process_mins(last_id)

\* A parent that starts at the minute the second operation of its producer
\* ends, on another resource.
C4_Witness ==
    /\ Accepted
    /\ Len(inp.raw_orders) = 3
    /\ inp.raw_orders[1].OrderNo = "B"
    /\ inp.raw_orders[1].OrdersId = 1
    /\ \E k \in 1..Len(inp.bom) : inp.bom[k].OrderNo = "A" /\ inp.bom[k].RequiredPartNo = 1
    /\ \E k \in 1..Len(inp.bom) : inp.bom[k].OrderNo = "B" /\ inp.bom[k].OrderPartNo = 1
    /\ sol.start[3] = sol.start[1] + process_mins(1)
    /\ sol.start[3] > 0
    /\ res_id_assigned(3) # res_id_assigned(1)

\* C5: in every accepted solution, every operation with an earliest start
\* date starts at or after (whole days from sim_start to that date) times
\* SHIFT_DURATION_MINUTES.
C5_EarliestStart ==
    Accepted =>
        \A oid \in TaskIds :
            LET earliest == TaskRow(oid).EarliestStartDate
            IN  earliest # None =>
                    sol.start[oid]
                        >= ((earliest - sim_start_time) \div Day) * SHIFT_DURATION_MINUTES

\* An operation that starts exactly at the offset of its earliest start date,
\* one day after the start.
C5_Witness ==
    /\ Accepted
    /\ \E oid \in TaskIds :
          /\ TaskRow(oid).EarliestStartDate # None
          /\ TaskRow(oid).EarliestStartDate > sim_start_time + Day
          /\ sol.start[oid] = SHIFT_DURATION_MINUTES

\* C6: the setup time of every emitted operation on a resource is the
\* changeover from the operation that immediately precedes it on that
\* resource in the solved schedule, and 0 for the first one: the operations
\* of the resource can be put in a sequence, each ending no later than the
\* next starts, along which the setup times are these.
C6_ChangeoverLaw ==
    Emitted =>
        \A res_id \in {db_save_list[k].resource_id : k \in 1..Len(db_save_list)} \ {None} :
            LET on == {k \in 1..Len(db_save_list) : db_save_list[k].resource_id = res_id}
                n == Cardinality(on)
            IN  \E seq \in [1..n -> on] :
                    /\ \A a, b \in 1..n : a # b => seq[a] # seq[b]
                    /\ \A a \in 1..(n - 1) :
                          end_val(db_save_list[seq[a]].id) <= start_val(db_save_list[seq[a + 1]].id)
                    /\ \A a \in 1..n :
                          db_save_list[seq[a]].setup_time =
                              IF a = 1 THEN 0
                              ELSE get_changeover_time(db_save_list[seq[a - 1]].id,
                                                       db_save_list[seq[a]].id, res_id)

\* C7: for a resource with a changeover group and a non-empty contribution
\* list, get_changeover_time returns the maximum of the contributions when
\* the resource is accumulative and their sum when it is not.
C7_MaxOrSum ==
    pc = "returned" /\ co.times # <<>> =>
        LET rows == {k \in 1..Len(inp.resources) : inp.resources[k].ResourcesId = co.res}
            accumulative == \E k \in rows : inp.resources[k].Accumulative \notin {None, 0}
            Sum[k \in 0..Len(co.times)] == IF k = 0 THEN 0 ELSE Sum[k - 1] + co.times[k]
            values == {co.times[k] : k \in 1..Len(co.times)}
            maximum == CHOOSE m \in values : \A x \in values : x <= m
        IN  /\ \E k \in rows : inp.resources[k].ChangeoverGroupId # None
            /\ co.result = IF accumulative THEN maximum ELSE Sum[Len(co.times)]

\* The contributions 20 and 50 on the accumulative resource give 50.
C7_Witness ==
    /\ pc = "returned"
    /\ co.res = 2
    /\ co.times = <<Minutes(20), Minutes(50)>>
    /\ co.result = Minutes(50)

\* C8: get_changeover_time returns 0 when the resource has no changeover
\* group or one of the operations has no parameter or nothing contributes;
\* else its list holds, for each to-parameter t in turn and each
\* from-parameter f of the attribute of t in turn, 0 when f = t, else the
\* matrix entry (G, a, f, t) when there is one, else the standard (G, a)
\* when there is one, else nothing.
C8_ContributionList ==
    pc = "returned" =>
        LET groups == {inp.resources[k].ChangeoverGroupId :
                         k \in {n \in 1..Len(inp.resources) :
                                  inp.resources[n].ResourcesId = co.res}} \ {None}
            G == CHOOSE g \in groups : TRUE
            ParamsOf(o) ==
                LET rows == SelectSeq(inp.order_attrs,
                                      LAMBDA x : x.OrderId = o /\ x.AttributeParamId # None)
                IN  [k \in 1..Len(rows) |-> rows[k].AttributeParamId]
            AttrsOfParam(p) ==
                {inp.attr_params[k].AttributeId :
                   k \in {n \in 1..Len(inp.attr_params) :
                            inp.attr_params[n].AttributeParamId = p}}
            from == ParamsOf(co.from)
            to == ParamsOf(co.to)
            Entries(f, t) ==
                {k \in 1..Len(inp.changeover_data) :
                   /\ inp.changeover_data[k].ChangeoverGroupId = G
                   /\ inp.changeover_data[k].AttributeId \in AttrsOfParam(t)
                   /\ inp.changeover_data[k].FromAttrParamId = f
                   /\ inp.changeover_data[k].ToAttrParamId = t}
            Standards(t) ==
                {k \in 1..Len(inp.changeover_times) :
                   /\ inp.changeover_times[k].ChangeoverGroupId = G
                   /\ inp.changeover_times[k].AttributeId \in AttrsOfParam(t)
                   /\ inp.changeover_times[k].ChangeoverTime # None}
            Contributes(f, t) ==
                /\ AttrsOfParam(t) # {}
                /\ AttrsOfParam(f) = AttrsOfParam(t)
                /\ f = t \/ Entries(f, t) # {} \/ Standards(t) # {}
            Contribution(f, t) ==
                IF f = t THEN 0
                ELSE IF Entries(f, t) # {}
                THEN LET v == inp.changeover_data[CHOOSE k \in Entries(f, t) : TRUE].SetupTime
                     IN  IF v = None THEN 0 ELSE v
                ELSE inp.changeover_times[CHOOSE k \in Standards(t) : TRUE].ChangeoverTime
            pairs == [k \in 1..(Len(to) * Len(from)) |->
                        <<from[((k - 1) % Len(from)) + 1], to[((k - 1) \div Len(from)) + 1]>>]
            contributing == SelectSeq(pairs, LAMBDA x : Contributes(x[1], x[2]))
            expected == [k \in 1..Len(contributing) |->
                           Contribution(contributing[k][1], contributing[k][2])]
        IN  IF groups = {} \/ from = <<>> \/ to = <<>>
            THEN co.times = <<>> /\ co.result = 0
            ELSE co.times = expected /\ (expected = <<>> => co.result = 0)

\* From parameter 1 to parameter 2 the matrix entry of 20 minutes is the one
\* contribution, although the attribute has a standard time and the matrix
\* has an entry from 2 to 1.
C8_Witness ==
    /\ pc = "returned"
    /\ co.res = 1
    /\ co.from = 1
    /\ co.to = 2
    /\ co.times = <<Minutes(20)>>
    /\ co.result = Minutes(20)
    /\ \E k \in 1..Len(inp.changeover_times) : inp.changeover_times[k].AttributeId = 1
    /\ \E k \in 1..Len(inp.changeover_data) :
          /\ inp.changeover_data[k].ChangeoverGroupId = 1
          /\ inp.changeover_data[k].FromAttrParamId = 2
          /\ inp.changeover_data[k].ToAttrParamId = 1

\* C9: whatever the changeover matrix and the standards hold,
\* get_changeover_time returns an integer number of minutes that is at
\* least 0.
C9_IntegerNotNegative ==
    pc = "returned" => co.result >= 0 /\ co.result % Scale = 0

\* C10: every calendar day that the interval from real_start to real_end of
\* an emitted operation overlaps is a day on which its resource has working
\* minutes.
C10_CalendarSoundness ==
    Emitted =>
        \A k \in 1..Len(db_save_list) :
            LET e == db_save_list[k]
            IN  e.resource_id # None /\ e.start_time < e.end_time =>
                    \A d \in (e.start_time \div Day)..((e.end_time - 1) \div Day) :
                        get_resource_working_minutes_for_date(e.resource_id, d * Day) > 0

C12_BoundedLookAhead ==
    cal.outcome # "none" =>
        /\ cal.examined <= 730
        /\ NeverWorks(cal.res) => cal.outcome = "CalendarOverflow"

\* C13: the working minutes of a resource on a date are 0 when the resource
\* has no schedule in the schedule table, when the schedule has no shift on
\* the weekday, or when the shift it names is not defined; otherwise they
\* are max(0, gross - breaks), gross and each break being end - start, plus
\* 1440 when negative.
C13_WorkingMinutesOn ==
    cal.outcome # "none" =>
        LET schedule_id == inp.resources[cal.res].ScheduleId
            Sched == {k \in 1..Len(inp.schedules) : inp.schedules[k].ScheduleId = schedule_id}
            shift_id == inp.schedules[CHOOSE k \in Sched : TRUE].Days[Weekday(cal.start) + 1]
            Shift == {k \in 1..Len(inp.shifts) : inp.shifts[k].ShiftId = shift_id}
            shift == inp.shifts[CHOOSE k \in Shift : TRUE]
            Wrap(x) == IF x < 0 THEN x + 1440 ELSE x
            BreakOf(k) ==
                LET B == {b \in 1..Len(inp.breaks) :
                            inp.breaks[b].BreakId = inp.break_shift_rel[k].BreakId}
                IN  IF inp.break_shift_rel[k].ShiftId # shift_id \/ B = {} THEN 0
                    ELSE LET brk == inp.breaks[CHOOSE b \in B : TRUE]
                         IN  Wrap(brk.EndTime - brk.StartTime)
            Breaks[k \in 0..Len(inp.break_shift_rel)] ==
                IF k = 0 THEN 0 ELSE Breaks[k - 1] + BreakOf(k)
            gross == Wrap(shift.EndTime - shift.StartTime)
            net == gross - Breaks[Len(inp.break_shift_rel)]
        IN  cal.minutes =
                IF schedule_id = None \/ Sched = {} THEN 0
                ELSE IF shift_id = None \/ Shift = {} THEN 0
                ELSE IF net < 0 THEN 0 ELSE net

\* C14: every operation record sent to the chart carries IsLate = YES
\* exactly when the operation has a due date and its materialised end is
\* strictly after it; every emitted operation has such a record.
C14_IsLate ==
    Emitted =>
        \A k \in 1..Len(db_save_list) :
            LET e == db_save_list[k]
                recs == {n \in 1..Len(output_list) :
                            /\ output_list[n].OrderNo = e.orno
                            /\ output_list[n].OpNo = e.opno}
            IN  /\ recs # {}
                /\ \A n \in recs :
                      output_list[n].IsLate = "YES"
                          <=> (e.due_date # None /\ e.end_time > e.due_date)

\* Two operations with the same due date: one ends exactly on it and is not
\* late, the other ends a minute after it and is late.
C14_Witness ==
    /\ Emitted
    /\ Len(db_save_list) = 2
    /\ \E a, b \in 1..2 :
          /\ db_save_list[a].due_date # None
          /\ db_save_list[a].end_time = db_save_list[a].due_date
          /\ db_save_list[b].due_date # None
          /\ db_save_list[b].end_time > db_save_list[b].due_date
          /\ \E n, m \in 1..Len(output_list) :
                /\ output_list[n].OrderNo = db_save_list[a].orno
                /\ output_list[n].IsLate = "NO"
                /\ output_list[m].OrderNo = db_save_list[b].orno
                /\ output_list[m].IsLate = "YES"

\* C15 (scenario S1): a single operation with a process time of one day,
\* on the only resource of its group, without changeovers, on a Monday to
\* Friday 08:00-16:30 calendar, is emitted by an optimal run with its start
\* at the simulation start and its end 480 minutes later.
C15_OneDayIsEightHours ==
    /\ Emitted
    /\ sol.status = "OPTIMAL"
    /\ Len(inp.raw_orders) = 1
    /\ inp.raw_orders[1].TotalProcessTime = OneDay
    /\ inp.changeover_data = <<>>
    /\ Len(group_to_resources(inp.raw_orders[1].ResourceGroup)) = 1
    /\ \A k \in 1..Len(inp.resources) : inp.resources[k].ScheduleId = 1
    => /\ db_save_list[1].start_time = sim_start_time
       /\ db_save_list[1].end_time = sim_start_time + 480 * Minute

\* C16: records are built only from a solve that ended OPTIMAL or FEASIBLE;
\* after any other status nothing is written to the sink, nothing is sent
\* to the chart, and the caller is handed an error.
C16_OnlySuccessStatuses ==
    /\ pc \in {"solved", "materialised", "saved", "done"} => Accepted
    /\ pc = "no_solution" =>
          /\ ~Accepted
          /\ sink = OldSink
          /\ io.write = "none"
          /\ output_list = <<>>
          /\ raised # "none"

\* C17: a run whose load failed, whose solve found no solution or whose
\* write to the sink failed ends with an exception for its caller, and a
\* failed write does not let the run go on.
C17_FailuresSurface ==
    /\ pc = "load_failed" => raised # "none"
    /\ pc = "no_solution" => raised # "none"
    /\ io.write \in WriteFaults => raised # "none" /\ pc = "crashed"

\* C18: save_schedule is called at most once in a run; after a call that
\* failed, at any point, the sink holds the rows it held before the call;
\* after a call that succeeded it holds exactly the records of the new
\* schedule.
C18_AllOrNothing ==
    /\ io.saves <= 1
    /\ io.write = "none" => io.saves = 0 /\ sink = OldSink
    /\ io.write \in WriteFaults => sink = OldSink
    /\ io.write = "success" => sink = db_save_list

\* A write that failed after the table was cleared, with a schedule to
\* write, and the run went on without another call.
C18_Witness ==
    /\ io.write = "insert"
    /\ io.saves = 1
    /\ db_save_list # <<>>
    /\ sink = OldSink
    /\ pc = "done"

\* C19: whenever get_data or save_schedule has returned or raised, whatever
\* the path, no connection it opened is still open.
C19_ConnectionsClosed == io.open = {}

\* Both functions were called, get_data ended well and save_schedule by an
\* exception that is not a pymssql.Error, after it had connected.
C19_Witness ==
    /\ io.read = "success"
    /\ io.write = "other"
    /\ raised = "Exception"
    /\ io.open = {}

\* C20: when an operation that is given to the solver asks for a resource
\* group without member resources, the run produces no schedule: no record
\* is emitted, for that operation or any other.
C20_EmptyGroupInfeasible ==
    (\E oid \in TaskIds : eligible_resources(oid) = <<>>) => ~Emitted

\* C21: whenever the store is readable, get_data hands back every stream
\* that solve_schedule binds, the load succeeds and the run goes on to the
\* pre-processing and the model.
C21_ReadableLoads ==
    db.readable /\ pc # "start" => io.read = "success" /\ pc # "load_failed"

\* C22: in every accepted solution an operation lasts process_minutes: its
\* TotalProcessTime in minutes rounded to the nearest integer, and at least
\* 1 when the TotalProcessTime is strictly positive; the setup adds nothing.
C22_DurationAtLeastOne ==
    Accepted =>
        \A oid \in TaskIds :
            LET days == TaskRow(oid).TotalProcessTime
                rounded == PyRoundTicks(days)
                process_minutes == IF rounded < 1 THEN 1 ELSE rounded
            IN  days # None /\ days > 0 =>
                    /\ end_val(oid) - start_val(oid) = process_minutes
                    /\ end_val(oid) - start_val(oid) >= 1

\* C23: when a BOM row names as its required part a part that its own order
\* produces, the model has no solution and no schedule is emitted.  Stated
\* for the orders whose operations all have an OrdersId and a strictly
\* positive process time.
C23_SelfProducingInfeasible ==
    (\E k \in 1..Len(inp.bom) :
        LET rows == {n \in 1..Len(inp.raw_orders) :
                       inp.raw_orders[n].OrderNo = inp.bom[k].OrderNo}
        IN  /\ inp.bom[k].RequiredPartNo # None
            /\ \E n \in 1..Len(inp.bom) :
                  /\ inp.bom[n].OrderNo = inp.bom[k].OrderNo
                  /\ inp.bom[n].OrderPartNo = inp.bom[k].RequiredPartNo
            /\ rows # {}
            /\ \A n \in rows :
                  /\ inp.raw_orders[n].OrdersId # None
                  /\ inp.raw_orders[n].TotalProcessTime # None
                  /\ inp.raw_orders[n].TotalProcessTime > 0)
    => ~Accepted /\ ~Emitted

\* C24: the list sent to the chart holds one operation record for each
\* scheduled operation and one CHANGEOVER record for each operation whose
\* changeover is positive; a CHANGEOVER record is followed by the record
\* of its operation and ends no later than that record starts; and every
\* operation record starts no later than it ends.  Stated for the inputs
\* in which every operation lasts a whole number of minutes, at least one,
\* and every matrix entry is a whole number of minutes, none negative.
C24_RenderingList ==
    /\ Emitted
    /\ \A k \in 1..Len(inp.raw_orders) :
          /\ inp.raw_orders[k].TotalProcessTime >= Scale
          /\ inp.raw_orders[k].TotalProcessTime % Scale = 0
    /\ \A k \in 1..Len(inp.changeover_data) :
          /\ inp.changeover_data[k].SetupTime >= 0
          /\ inp.changeover_data[k].SetupTime % Scale = 0
    => LET cos == {n \in 1..Len(output_list) : output_list[n].OrderNo = "CHANGEOVER"}
           ops == (1..Len(output_list)) \ cos
       IN  /\ Cardinality(ops) = Len(db_save_list)
           /\ Cardinality(cos)
                 = Cardinality({k \in 1..Len(db_save_list) : db_save_list[k].setup_time > 0})
           /\ \A n \in cos :
                 /\ n + 1 \in ops
                 /\ output_list[n].EndTime <= output_list[n + 1].StartTime
           /\ \A n \in ops : output_list[n].StartTime <= output_list[n].EndTime

\* C25: the changeover block of an operation with a positive changeover
\* lies, in solver minutes, between the end of the operations that precede
\* it on its resource and its own solved start: it begins no earlier than
\* they end and ends no later than the operation starts.  Stated for the
\* same inputs as C24.
C25_SetupInTheGap ==
    /\ Emitted
    /\ \A k \in 1..Len(inp.raw_orders) :
          /\ inp.raw_orders[k].TotalProcessTime >= Scale
          /\ inp.raw_orders[k].TotalProcessTime % Scale = 0
    /\ \A k \in 1..Len(inp.changeover_data) :
          /\ inp.changeover_data[k].SetupTime >= 0
          /\ inp.changeover_data[k].SetupTime % Scale = 0
    => \A oid \in TaskIds :
           task_setup_times[oid] > 0 =>
               LET block == ChangeoverBlock(oid, task_setup_times[oid])
                   before == {p \in TaskIds \ {oid} :
                                /\ res_id_assigned(p) = res_id_assigned(oid)
                                /\ end_val(p) <= start_val(oid)}
               IN  /\ before # {}
                   /\ \A p \in before : end_val(p) * Minute <= block[1]
                   /\ block[2] <= start_val(oid) * Minute

\* C26: in every accepted solution total_changeover_cost is the sum, over
\* the ordered pairs (i, j) of distinct operations selected on the same
\* resource r with i before j, adjacent or not, of changeover_minutes(i, j,
\* r).  Stated for the models that have a cost variable and whose
\* operations last a minute or more, so that one of each pair is before
\* the other.
C26_TotalChangeoverCost ==
    /\ Accepted
    /\ HasCostVars
    /\ \A oid \in TaskIds : process_mins(oid) >= 1
    => LET pairs == {p \in TaskIds \X TaskIds :
                       /\ p[1] # p[2]
                       /\ res_id_assigned(p[1]) # None
                       /\ res_id_assigned(p[1]) = res_id_assigned(p[2])
                       /\ end_val(p[1]) <= start_val(p[2])}
       IN  sol.total_changeover_cost * Minute
               = SumOver([p \in pairs |->
                             get_changeover_time(p[1], p[2], res_id_assigned(p[1]))])

\* The sum, over the operations with a due date, of max(0, end - due_minutes)
\* for the starts st, due_minutes being the whole days from sim_start_time to
\* the due date times the default shift length.
C27_LateSum(st) ==
    LET due_minutes(oid) ==
            ((TaskRow(oid).DueDate - sim_start_time) \div Day) * SHIFT_DURATION_MINUTES
        late(oid) ==
            LET over == st[oid] + process_mins(oid) - due_minutes(oid)
            IN  IF over > 0 THEN over ELSE 0
    IN  SumOver([oid \in {x \in TaskIds : TaskRow(x).DueDate # None} |-> late(oid)])

\* Scenario S6: an order of 2 days and an order of 4 days with the same due
\* date.
C27_S6 ==
    /\ Len(inp.raw_orders) = 2
    /\ {inp.raw_orders[k].TotalProcessTime : k \in 1..2} = {2 * OneDay, 4 * OneDay}
    /\ inp.raw_orders[1].DueDate # None
    /\ inp.raw_orders[1].DueDate = inp.raw_orders[2].DueDate

\* C27 as stated: in every accepted solution total_lateness is the sum over
\* the operations with a due date of max(0, end - due_minutes), and in
\* scenario S6 no schedule of the model has a smaller total lateness than
\* the accepted one.  Stated for the inputs in which some operation has a
\* due date.
C27_TotalLatenessAccepted ==
    Accepted /\ (\E oid \in TaskIds : TaskRow(oid).DueDate # None) =>
        /\ sol.total_lateness = C27_LateSum(sol.start)
        /\ C27_S6 => \A sc \in Solutions : C27_LateSum(sc[1]) >= C27_LateSum(sol.start)

\* C27, amended: in every accepted solution total_lateness is at least the
\* sum over the operations with a due date of max(0, end - due_minutes), and
\* equal to it when the solver reports OPTIMAL; in scenario S6 a solution
\* reported OPTIMAL is the ordering with the smaller total lateness.
C27_TotalLateness ==
    Accepted =>
        /\ sol.total_lateness >= C27_LateSum(sol.start)
        /\ sol.status = "OPTIMAL" =>
              /\ sol.total_lateness = C27_LateSum(sol.start)
              /\ C27_S6 =>
                    \A sc \in Solutions : C27_LateSum(sc[1]) >= C27_LateSum(sol.start)

\* An optimal schedule of scenario S6 is reached: both orders are late, the
\* order of 2 days is first and the total is the sum of the two latenesses.
C27_Witness ==
    /\ Accepted
    /\ sol.status = "OPTIMAL"
    /\ C27_S6
    /\ sol.total_lateness = 7440
    /\ \E a, b \in TaskIds :
          /\ TaskRow(a).TotalProcessTime = 2 * OneDay
          /\ TaskRow(b).TotalProcessTime = 4 * OneDay
          /\ end_val(a) <= start_val(b)
          /\ end_val(a) > 2040

\* C30: due dates are soft.  Whenever the solver reports INFEASIBLE, the
\* model is infeasible without its due dates as well: no starts and
\* selections satisfy the domains, the earliest starts, the selection, the
\* sequence, the BOM, the no-overlap and the changeover constraints.
C30_DueDatesAreSoft ==
    sol.status = "INFEASIBLE" =>
        \A sc \in [TaskIds -> StartCandidates] \X ChoiceCandidates :
            ~ /\ \A oid \in TaskIds :
                    /\ DomainsOk(sc[1], oid)
                    /\ EarliestOk(sc[1], oid)
                    /\ SelectionOk(sc[2], oid)
              /\ SequenceOk(sc[1])
              /\ BomOk(sc[1])
              /\ NoOverlapOk(sc[1], sc[2])
              /\ ChangeoverOk(sc[1], sc[2])

\* The stage a position of the run belongs to: 1 the load, 2 the model
\* build, 3 the solve, 4 the materialisation, 5 the write of the output
\* sink, 6 the validation and the rendering.
C28_Stage(p) ==
    CASE p = "start" -> 0
      [] p \in {"load_failed", "no_orders", "loaded"} -> 1
      [] p \in {"no_tasks", "built"} -> 2
      [] p \in {"no_solution", "solved"} -> 3
      [] p = "materialised" -> 4
      [] p \in {"saved", "crashed"} -> 5
      [] p = "done" -> 6

\* C28: within one invocation the stages run in strict order and each at
\* most once: load, build, one solve, materialisation.  The output sink is
\* written only after a successful solve, the rendering sink is called only
\* after the write of the output sink was attempted, and a failed load or
\* an empty operation list ends the run before a model is built or
\* anything is written.
C28_StrictPipeline ==
    [][/\ C28_Stage(pc') > C28_Stage(pc)
       /\ inp' # inp => pc = "start"
       /\ horizon' # horizon \/ sim_start_time' # sim_start_time => pc = "loaded"
       /\ sol' # sol => pc = "built"
       /\ db_save_list' # db_save_list \/ output_list' # output_list => pc = "solved"
       /\ sink' # sink \/ io'.write # io.write \/ io'.saves # io.saves =>
             /\ pc = "materialised"
             /\ Accepted
             /\ io.write = "none"
             /\ io'.saves = 1
       /\ pc' = "done" => pc = "saved" /\ io.write # "none"
       /\ pc \in {"load_failed", "no_orders"} => FALSE
       /\ pc' \in {"load_failed", "no_orders"} =>
             /\ horizon' = 0
             /\ sol' = NoSolution
             /\ db_save_list' = <<>> /\ output_list' = <<>>
             /\ sink' = OldSink
             /\ io'.write = "none" /\ io'.saves = 0
      ]_vars

\* A run has gone through every stage: the solve was accepted, the sink was
\* written once and the chart was drawn.
C28_Witness ==
    /\ pc = "done"
    /\ Accepted
    /\ io.write = "success"
    /\ io.saves = 1
    /\ sink # OldSink
    /\ output_list # <<>>

\* The working time of every working day of the resource, counted from the
\* start of its shift, is over when the shift of the next working day
\* starts.
C29_ShiftsInSequence(resource_id) ==
    \A d \in 0..6 :
        LET day_minutes == get_resource_working_minutes_for_date(resource_id, d * Day)
            gap == CHOOSE k \in 1..7 :
                      /\ get_resource_working_minutes_for_date(resource_id, (d + k) * Day) > 0
                      /\ \A j \in 1..(k - 1) :
                            get_resource_working_minutes_for_date(resource_id, (d + j) * Day) = 0
        IN  day_minutes > 0 =>
                get_shift_start_time_for_date(resource_id, d * Day) + day_minutes
                    <= gap * 1440 + get_shift_start_time_for_date(resource_id, (d + gap) * Day)

\* C29 as stated: materialisation is monotone for a fixed resource and
\* start, for every calendar: a call with b worked minutes returns no
\* earlier than a call with a <= b worked minutes.
C29_MonotoneAnyCalendar ==
    pc = "returned" /\ cal.outcome = "returned" =>
        \A a \in EngineWorked :
            a <= cal.worked =>
                working_minutes_to_real_time_for_resource(cal.res, cal.start, a) <= cal.result

\* C29, amended: materialisation is monotone for a fixed resource and start
\* for every calendar, overnight shifts and differing shift starts included,
\* in which the working time of each working day is over when the shift of
\* the next working day starts.
C29_Monotone ==
    pc = "returned" /\ cal.outcome = "returned" /\ C29_ShiftsInSequence(cal.res) =>
        \A a \in EngineWorked :
            a <= cal.worked =>
                working_minutes_to_real_time_for_resource(cal.res, cal.start, a) <= cal.result

\* A call on the calendar with a day shift, a night shift and an early
\* shift: 960 worked minutes from Monday end on Thursday at 05:20, after
\* the 481 minutes that end on Tuesday at 22:01.
C29_Witness ==
    /\ pc = "returned"
    /\ cal.outcome = "returned"
    /\ C29_ShiftsInSequence(cal.res)
    /\ cal.res = 10
    /\ cal.start = At(7, 8, 0)
    /\ cal.worked = Minutes(960)
    /\ cal.result = At(10, 5, 20)
    /\ working_minutes_to_real_time_for_resource(cal.res, cal.start, Minutes(481))
           = At(8, 22, 1)
====
